---------------------------- MODULE Spec2Model ----------------------------
(***************************************************************************)
(* Model of the similarity and clustering engine of compear:               *)
(*   src/src/utils/similarity.ts        cosine similarity, CPU all-pairs   *)
(*   src/src/utils/webgpuSimilarity.ts  WebGPU probe, GPU all-pairs,       *)
(*                                      GPU k-means / hierarchical         *)
(*   src/src/utils/topicModeling.ts     performClustering and the CPU      *)
(*                                      k-means / hierarchical clustering  *)
(*                                                                         *)
(* Numbers.  A JavaScript number or a WGSL f32 is modelled as an exact     *)
(* rational <<n, d>> in lowest terms with d > 0; NaN is <<0, 0>> and       *)
(* -Infinity is <<-1, 0>>.  The                                            *)
(* embedding components are small integers and every input vector has an   *)
(* integer Euclidean norm, so Math.sqrt / sqrt is exact on the values it   *)
(* is applied to and a correctly rounded division maps equal rationals to  *)
(* equal floats and different rationals to different floats.  The          *)
(* rounding difference between f32 and f64 is not represented.             *)
(***************************************************************************)
EXTENDS Integers, Sequences, FiniteSets, TLC

\* ------------------------------------------------------------------ bounds

\* Largest number of vectors in one input.
MaxN == 3

\* Largest cluster count k passed to a clustering call.
MaxK == 2

\* The probe counter saturates here (it is a history counter, not a guard).
ProbeCap == 2

\* ------------------------------------------------------------------ numbers

NaN == <<0, 0>>

Abs(x) == IF x < 0 THEN -x ELSE x

RECURSIVE GCD(_, _)
GCD(a, b) == IF b = 0 THEN a ELSE GCD(b, a % b)

\* n / d for integer-valued n and d: the quotient in lowest terms, and NaN
\* for 0 / 0.  (A zero d with a non-zero n does not occur: every divisor
\* below that can be zero is a norm, and a zero norm forces a zero n.)
Div(n, d) ==
  IF d = 0 THEN NaN
  ELSE LET g == GCD(Abs(n), Abs(d))
           s == IF d < 0 THEN -1 ELSE 1
       IN  <<(s * n) \div g, (s * d) \div g>>

IsNaN(x) == x[1] = 0 /\ x[2] = 0

\* a > b of two numbers; false as soon as one is NaN.
Greater(a, b) == ~IsNaN(a) /\ ~IsNaN(b) /\ a[1] * b[2] > b[1] * a[2]

\* -Infinity: below every number under Greater.
NegInfinity == <<-1, 0>>

\* a + b; NaN as soon as one is NaN.
Plus(a, b) ==
  IF IsNaN(a) \/ IsNaN(b) THEN NaN ELSE Div(a[1] * b[2] + b[1] * a[2], a[2] * b[2])

\* a / n for an integer n > 0.
Over(a, n) == IF IsNaN(a) THEN NaN ELSE Div(a[1], a[2] * n)

\* Math.sqrt / sqrt on a perfect square.
Sqrt(n) == CHOOSE r \in 0..n : r * r = n

\* ------------------------------------------------------------------ inputs

\* Embedding vectors: dimension 0 and dimension 2, including the zero vector,
\* opposite vectors and a vector that is not axis-aligned.
Vecs == { <<>>, <<0, 0>>, <<1, 0>>, <<0, 1>>, <<-1, 0>>, <<3, 4>> }

RECURSIVE SeqsUpTo(_, _)
SeqsUpTo(S, n) ==
  IF n = 0 THEN { <<>> }
  ELSE LET shorter == SeqsUpTo(S, n - 1)
       IN  shorter \cup { Append(s, x) : s \in { t \in shorter : Len(t) = n - 1 }, x \in S }

\* Every list of at most MaxN vectors, lists of unequal lengths included.
VectorLists == SeqsUpTo(Vecs, MaxN)

\* The lists that satisfy the VectorSet invariant (all vectors share dim).
VectorSets == { e \in VectorLists : \A i, j \in 1..Len(e) : Len(e[i]) = Len(e[j]) }

\* ------------------------------------------------------------------ cosine similarity

RECURSIVE SumTo(_, _)
\* f[1] + ... + f[n]
SumTo(f, n) == IF n = 0 THEN 0 ELSE SumTo(f, n - 1) + f[n]

\* b[i] || 0 : an index past the end reads undefined, which || turns into 0.
OrZero(b, i) == IF i <= Len(b) THEN b[i] ELSE 0

\* Mutation of cosineSimilarity: the same function without its length check.
cosineSimilarity_NoLengthCheck(vecA, vecB) ==
  LET n == Len(vecA)
      dotProduct == SumTo([i \in 1..n |-> vecA[i] * OrZero(vecB, i)], n)
      normA == SumTo([i \in 1..n |-> vecA[i] * vecA[i]], n)
      normB == SumTo([i \in 1..n |-> OrZero(vecB, i) * OrZero(vecB, i)], n)
      denominator == Sqrt(normA) * Sqrt(normB)
  IN  [throws |-> FALSE,
       value |-> IF denominator = 0 THEN <<0, 1>> ELSE Div(dotProduct, denominator)]

\* similarity.ts cosineSimilarity: throws on unequal lengths, 0 on a zero
\* denominator.
cosineSimilarity(vecA, vecB) ==
  IF Len(vecA) # Len(vecB) THEN [throws |-> TRUE, value |-> NaN]
  ELSE LET n == Len(vecA)
           dotProduct == SumTo([i \in 1..n |-> vecA[i] * vecB[i]], n)
           normA == SumTo([i \in 1..n |-> vecA[i] * vecA[i]], n)
           normB == SumTo([i \in 1..n |-> vecB[i] * vecB[i]], n)
           denominator == Sqrt(normA) * Sqrt(normB)
       IN  [throws |-> FALSE,
            value |-> IF denominator = 0 THEN <<0, 1>> ELSE Div(dotProduct, denominator)]

\* The cosineSimilarity of the three compute shaders (similarity, k-means,
\* hierarchical): both operands are rows of flat f32 arrays, bufA[indexA *
\* vectorDim + i] and bufB[indexB * vectorDim + i], 0 on a zero denominator.
\* (Sequences are 1-based, the shader's offsets 0-based.)
shaderCosineSimilarity(bufA, indexA, bufB, indexB, vectorDim) ==
  LET offsetA == indexA * vectorDim
      offsetB == indexB * vectorDim
      dotProduct == SumTo([i \in 1..vectorDim |-> bufA[offsetA + i] * bufB[offsetB + i]], vectorDim)
      normA == SumTo([i \in 1..vectorDim |-> bufA[offsetA + i] * bufA[offsetA + i]], vectorDim)
      normB == SumTo([i \in 1..vectorDim |-> bufB[offsetB + i] * bufB[offsetB + i]], vectorDim)
      denominator == Sqrt(normA) * Sqrt(normB)
  IN  IF denominator = 0 THEN <<0, 1>> ELSE Div(dotProduct, denominator)

\* The cosine helper of topicModeling.ts and the two copies of it inside
\* kMeansClusteringGPU and hierarchicalClusteringGPU: no length check, a
\* missing component counts as 0, and no guard on the denominator.
helperCosineSimilarity(a, b) ==
  LET n == Len(a)
      dotProduct == SumTo([i \in 1..n |-> a[i] * OrZero(b, i)], n)
      normA == SumTo([i \in 1..n |-> a[i] * a[i]], n)
      normB == SumTo([i \in 1..n |-> OrZero(b, i) * OrZero(b, i)], n)
  IN  Div(dotProduct, Sqrt(normA) * Sqrt(normB))

\* ------------------------------------------------------------------ sorting

RECURSIVE InsertByScore_Unstable(_, _)
\* Mutation of InsertByScore: a sort that puts p in front of the elements
\* of equal score.
InsertByScore_Unstable(sorted, p) ==
  IF sorted = <<>> THEN <<p>>
  ELSE IF ~Greater(sorted[Len(sorted)].score, p.score)
       THEN Append(InsertByScore_Unstable(SubSeq(sorted, 1, Len(sorted) - 1), p), sorted[Len(sorted)])
       ELSE Append(sorted, p)

RECURSIVE InsertByScore(_, _)
\* p placed behind every element whose score is not smaller than p's.
InsertByScore(sorted, p) ==
  IF sorted = <<>> THEN <<p>>
  ELSE IF Greater(p.score, sorted[Len(sorted)].score)
       THEN Append(InsertByScore(SubSeq(sorted, 1, Len(sorted) - 1), p), sorted[Len(sorted)])
       ELSE Append(sorted, p)

RECURSIVE SortByScoreDesc(_)
\* results.sort((a, b) => b.score - a.score): Array.prototype.sort is stable,
\* so elements the comparator calls equal keep their order.
SortByScoreDesc(results) ==
  IF results = <<>> THEN <<>>
  ELSE InsertByScore(SortByScoreDesc(SubSeq(results, 1, Len(results) - 1)), results[Len(results)])

\* ------------------------------------------------------------------ CPU all-pairs

RECURSIVE PairLoop(_, _, _, _)
\* The double loop of calculatePairwiseSimilarities from (i, j) on (0-based):
\* the list of pairs pushed so far, or a throw out of cosineSimilarity.
PairLoop(emb, i, j, results) ==
  IF i >= Len(emb) THEN [throws |-> FALSE, value |-> results]
  ELSE IF j >= Len(emb) THEN PairLoop(emb, i + 1, i + 2, results)
  ELSE LET c == cosineSimilarity(emb[i + 1], emb[j + 1])
       IN  IF c.throws THEN [throws |-> TRUE, value |-> <<>>]
           ELSE PairLoop(emb, i, j + 1,
                         Append(results, [rowIndexA |-> i, rowIndexB |-> j, score |-> c.value]))

\* similarity.ts calculatePairwiseSimilarities(embeddings): the sorted pair
\* list, or a throw.
calculatePairwiseSimilarities(emb) ==
  LET r == PairLoop(emb, 0, 1, <<>>)
  IN  IF r.throws THEN r ELSE [throws |-> FALSE, value |-> SortByScoreDesc(r.value)]

\* ------------------------------------------------------------------ GPU all-pairs

RECURSIVE FlattenFrom(_, _, _, _)
\* flat.set(embeddings[i], i * vectorDim) for i = from .. numVectors - 1: a
\* vector that does not fit behind its offset raises a RangeError.
FlattenFrom(emb, vectorDim, from, flat) ==
  IF from >= Len(emb) THEN [throws |-> FALSE, value |-> flat]
  ELSE LET v == emb[from + 1]
           off == from * vectorDim
       IN  IF off + Len(v) > Len(flat) THEN [throws |-> TRUE, value |-> <<>>]
           ELSE FlattenFrom(emb, vectorDim, from + 1,
                  [x \in 1..Len(flat) |->
                     IF x > off /\ x <= off + Len(v) THEN v[x - off] ELSE flat[x]])

\* The zero-filled Float32Array(numVectors * vectorDim) with every vector set.
Flatten(emb, vectorDim) ==
  FlattenFrom(emb, vectorDim, 0, [x \in 1..(Len(emb) * vectorDim) |-> 0])

RECURSIVE PairOfIndex(_, _, _, _)

RECURSIVE PairOfIndex_FixedRowSize(_, _, _, _)
\* Mutation of PairOfIndex: a recovery that never narrows the row.
PairOfIndex_FixedRowSize(row, remaining, rowSize, numVectors) ==
  IF row >= numVectors THEN <<0, 0>>
  ELSE IF remaining < rowSize THEN <<row, row + remaining + 1>>
  ELSE PairOfIndex_FixedRowSize(row + 1, remaining - rowSize, rowSize, numVectors)

\* Mutation of PairOfIndex: a recovery whose column is off by one.
PairOfIndex_NoOffset(row, remaining, rowSize, numVectors) ==
  IF row >= numVectors THEN <<0, 0>>
  ELSE IF remaining < rowSize THEN <<row, row + remaining>>
  ELSE PairOfIndex(row + 1, remaining - rowSize, rowSize - 1, numVectors)

\* The shaders' recovery of (i, j) from a linear pair index: the loop over
\* row with its running (remaining, rowSize); <<0, 0>> when it ends without
\* a break.  (rowSize - 1u wraps only in the last pass, after which the loop
\* ends and rowSize is not read again.)
PairOfIndex(row, remaining, rowSize, numVectors) ==
  IF row >= numVectors THEN <<0, 0>>
  ELSE IF remaining < rowSize THEN <<row, row + remaining + 1>>
  ELSE PairOfIndex(row + 1, remaining - rowSize, rowSize - 1, numVectors)

\* main of computeShaderCode for the invocation pairIndex < totalPairs: the
\* three f32 it stores at results[3 * pairIndex ..].
similarityShaderMain(flat, numVectors, vectorDim, pairIndex) ==
  LET ij == PairOfIndex(0, pairIndex, numVectors - 1, numVectors)
  IN  << Div(ij[1], 1), Div(ij[2], 1),
         shaderCosineSimilarity(flat, ij[1], flat, ij[2], vectorDim) >>

\* Math.round of an f32 read back from the staging buffer.
Round(x) == (2 * x[1] + x[2]) \div (2 * x[2])

\* The body of calculateSimilaritiesOnGPU behind the device checks, for a
\* dispatch that completes: the early return, the flattening, one shader
\* invocation per pair index (invocations at or past totalPairs return at
\* once), the read-back and the sort.
similaritiesOnGPU(emb) ==
  LET numVectors == Len(emb)
      vectorDim == IF numVectors = 0 THEN 0 ELSE Len(emb[1])
      totalPairs == (numVectors * (numVectors - 1)) \div 2
  IN  IF numVectors = 0 \/ vectorDim = 0 THEN [throws |-> FALSE, value |-> <<>>]
      ELSE LET f == Flatten(emb, vectorDim)
           IN  IF f.throws THEN [throws |-> TRUE, value |-> <<>>]
               ELSE LET resultData == [p \in 0..(totalPairs - 1) |->
                                         similarityShaderMain(f.value, numVectors, vectorDim, p)]
                        results == [p \in 1..totalPairs |->
                                      [rowIndexA |-> Round(resultData[p - 1][1]),
                                       rowIndexB |-> Round(resultData[p - 1][2]),
                                       score |-> resultData[p - 1][3]]]
                    IN  [throws |-> FALSE, value |-> SortByScoreDesc(results)]

\* TRUE iff the call reaches the GPU (creates buffers, dispatches, maps):
\* only then can the device fail under it.
similaritiesUsesDevice(emb) ==
  Len(emb) # 0 /\ Len(emb[1]) # 0 /\ ~Flatten(emb, Len(emb[1])).throws

\* ------------------------------------------------------------------ clustering: data
(***************************************************************************)
(* A cluster is [documentIndices, centroid]; its coherence is not          *)
(* represented.  A centroid is [sum, count, kind]:                         *)
(*   kind "raw"   the vector sum / count (a copied row has count 1),       *)
(*   kind "unit"  the vector sum / count divided by its norm,              *)
(*   kind "nan"   the vector sum / count = 0 divided by its norm 0: every  *)
(*                component is NaN.                                        *)
(* The norm of a mean is irrational in general, so a cosine against a      *)
(* centroid, x = dot / sqrt(nn), is held as the number sign(x) * x * x,    *)
(* which orders and separates such cosines exactly as x does.              *)
(***************************************************************************)

\* The array holding the values the function f lists: computed once, where
\* f itself would be computed again at every f[i].
Array(f) == <<>> \o f

\* a[1] * b[1] + ... over the components of a, a missing b[i] counting as 0.
Dot(a, b) == SumTo([i \in 1..Len(a) |-> a[i] * OrZero(b, i)], Len(a))

\* sign(x) * x * x for x = dot / sqrt(nn); NaN for nn = 0 (then dot = 0).
SignedSquare(dot, nn) == Div((IF dot < 0 THEN -1 ELSE 1) * dot * dot, nn)

\* [...embeddings[idx]]
CopyOf(v) == [sum |-> v, count |-> 1, kind |-> "raw"]

\* The helper cosine of topicModeling.ts (and its copies) of a row and a
\* centroid: a NaN component of b reads as 0 through `b[i] || 0`, and the
\* quotient is not guarded.
helperCosineToCentroid(a, c) ==
  IF c.kind = "nan" THEN NaN
  ELSE SignedSquare(Dot(a, c.sum), Dot(a, a) * Dot(c.sum, c.sum))

\* The shaders' cosineSimilarity of a row (or centroid) and a centroid,
\* given as the vectors their buffers hold: 0 on a zero denominator.
shaderCosineToCentroid(a, c) ==
  IF Dot(a, a) * Dot(c.sum, c.sum) = 0 THEN <<0, 1>>
  ELSE SignedSquare(Dot(a, c.sum), Dot(a, a) * Dot(c.sum, c.sum))

\* The component sums of the rows listed in documentIndices (0-based rows).
SumOfRows(emb, dimension, documentIndices) ==
  Array([d \in 1..dimension |->
           SumTo([x \in 1..Len(documentIndices) |-> emb[documentIndices[x] + 1][d]],
                 Len(documentIndices))])

\* Mean of the rows, then `/= norm`: NaN components when the norm is 0.
meanCentroidUnguarded(emb, dimension, documentIndices) ==
  LET sum == SumOfRows(emb, dimension, documentIndices)
  IN  [sum |-> sum, count |-> Len(documentIndices),
       kind |-> IF dimension = 0 THEN "raw"
                ELSE IF \A d \in 1..dimension : sum[d] = 0 THEN "nan" ELSE "unit"]

\* Mean of the rows, then `/= norm || 1`: the zero mean stays as it is.
meanCentroidGuarded(emb, dimension, documentIndices) ==
  LET sum == SumOfRows(emb, dimension, documentIndices)
  IN  [sum |-> sum, count |-> Len(documentIndices),
       kind |-> IF dimension = 0 THEN "raw"
                ELSE IF \A d \in 1..dimension : sum[d] = 0 THEN "raw" ELSE "unit"]

RECURSIVE IndicesOf_DropsRowZero(_, _, _)
\* Mutation of IndicesOf: row 0 is never listed.
IndicesOf_DropsRowZero(assignments, c, n) ==
  IF n <= 1 THEN <<>>
  ELSE IF assignments[n] = c
       THEN Append(IndicesOf_DropsRowZero(assignments, c, n - 1), n - 1)
       ELSE IndicesOf_DropsRowZero(assignments, c, n - 1)

RECURSIVE IndicesOf(_, _, _)
\* The rows i < n (0-based, ascending) with assignments[i] = c.
IndicesOf(assignments, c, n) ==
  IF n = 0 THEN <<>>
  ELSE IF assignments[n] = c
       THEN Append(IndicesOf(assignments, c, n - 1), n - 1)
       ELSE IndicesOf(assignments, c, n - 1)

RECURSIVE InsertBySize(_, _)
InsertBySize(sorted, c) ==
  IF sorted = <<>> THEN <<c>>
  ELSE IF Len(c.documentIndices) > Len(sorted[Len(sorted)].documentIndices)
       THEN Append(InsertBySize(SubSeq(sorted, 1, Len(sorted) - 1), c), sorted[Len(sorted)])
       ELSE Append(sorted, c)

RECURSIVE SortBySizeDesc(_)
\* clusters.sort((a, b) => b.documentIndices.length - a.documentIndices.length)
SortBySizeDesc(clusters) ==
  IF clusters = <<>> THEN <<>>
  ELSE InsertBySize(SortBySizeDesc(SubSeq(clusters, 1, Len(clusters) - 1)), clusters[Len(clusters)])

\* How a clustering function ends: it returns clusters, throws, or never
\* returns.  progress lists the values it has passed to onProgress, history
\* what each pass of its loop did.
Returns(clusters) ==
  [end |-> "returns", value |-> clusters, progress |-> <<>>, history |-> <<>>]

Throws == [end |-> "throws", value |-> <<>>, progress |-> <<>>, history |-> <<>>]

Diverges == [end |-> "diverges", value |-> <<>>, progress |-> <<>>, history |-> <<>>]

\* The outcome r of a function whose loop reported `progress` and did
\* `history`.
WithTrace(r, progress, history) ==
  [end |-> r.end, value |-> r.value, progress |-> progress, history |-> history]

\* The seeds the `while (centroids.length < k)` loop can end with: k distinct
\* rows in the order drawn.  No draw ends the loop when k exceeds the number
\* of rows.
SeedSeqs(n, k) ==
  { q \in [1..k -> 0..(n - 1)] : \A x, y \in 1..k : x # y => q[x] # q[y] }

\* ------------------------------------------------------------------ k-means

maxIterations == 100

RECURSIVE nearestCentroid(_, _, _, _, _, _)
\* topicModeling.ts:223-237, the loop over c from c on: first centroid of
\* greatest similarity, starting from maxSim = -Infinity, bestCluster = 0.
nearestCentroid(e, centroids, k, c, maxSim, bestCluster) ==
  IF c >= k THEN bestCluster
  ELSE LET sim == helperCosineToCentroid(e, centroids[c + 1])
       IN  IF Greater(sim, maxSim)
             THEN nearestCentroid(e, centroids, k, c + 1, sim, c)
             ELSE nearestCentroid(e, centroids, k, c + 1, maxSim, bestCluster)

RECURSIVE nearestCentroidShader(_, _, _, _, _, _)
\* main of kmeansShaderCode for one point: as above with the guarded cosine
\* and maxSim starting at -1.0.
nearestCentroidShader(e, centroids, k, c, maxSim, bestCentroid) ==
  IF c >= k THEN bestCentroid
  ELSE LET sim == shaderCosineToCentroid(e, centroids[c + 1])
       IN  IF Greater(sim, maxSim)
             THEN nearestCentroidShader(e, centroids, k, c + 1, sim, c)
             ELSE nearestCentroidShader(e, centroids, k, c + 1, maxSim, bestCentroid)

\* The outcome `rest` of the passes behind a pass of a loop that called
\* onProgress(reported) and did `pass`.
WithPass(rest, reported, pass) ==
  [rest EXCEPT !.progress = <<reported>> \o @, !.history = <<pass>> \o @]

\* The assignment step of one pass: newAssignments, by the shader on the GPU
\* and by embeddings.map(...) on the CPU.
assignPoints(gpu, emb, k, centroids) ==
  Array([i \in 1..Len(emb) |->
           IF gpu THEN nearestCentroidShader(emb[i], centroids, k, 0, <<-1, 1>>, 0)
                  ELSE nearestCentroid(emb[i], centroids, k, 0, NegInfinity, 0)])

\* The centroid update of one pass: a cluster id with points gets their
\* normalised mean, one without keeps its centroid.
updateCentroids(gpu, emb, k, centroids, assignments) ==
  Array([c \in 1..k |->
           LET clusterPoints == IndicesOf(assignments, c - 1, Len(emb))
           IN  IF Len(clusterPoints) > 0
                 THEN IF gpu THEN meanCentroidGuarded(emb, Len(emb[1]), clusterPoints)
                             ELSE meanCentroidUnguarded(emb, Len(emb[1]), clusterPoints)
                 ELSE centroids[c]])

RECURSIVE kMeansLoop(_, _, _, _, _, _)

\* One pass behind its assignment step: convergence test against the
\* assignments before it, centroid update, iteration++,
\* onProgress(iteration / maxIterations), and the loop test again.
kMeansPass(gpu, emb, k, assignments, iteration, newAssignments, newCentroids) ==
  IF \A i \in 1..Len(emb) : newAssignments[i] = assignments[i]
    THEN [centroids |-> newCentroids, assignments |-> newAssignments,
          iteration |-> iteration + 1,
          progress |-> <<Div(iteration + 1, maxIterations)>>,
          history |-> <<[before |-> assignments, after |-> newAssignments]>>]
    ELSE WithPass(kMeansLoop(gpu, emb, k, newCentroids, newAssignments, iteration + 1),
                  Div(iteration + 1, maxIterations),
                  [before |-> assignments, after |-> newAssignments])

\* One pass from its assignment step on.
kMeansAssigned(gpu, emb, k, centroids, assignments, iteration, newAssignments) ==
  kMeansPass(gpu, emb, k, assignments, iteration, newAssignments,
             updateCentroids(gpu, emb, k, centroids, newAssignments))

\* The `while (!converged && iteration < maxIterations)` loop of
\* kMeansClustering (gpu = FALSE) and of kMeansClusteringGPU (gpu = TRUE),
\* entered with converged = false: assignment, convergence test, centroid
\* update, iteration++, onProgress(iteration / maxIterations).
kMeansLoop(gpu, emb, k, centroids, assignments, iteration) ==
  IF iteration >= maxIterations
    THEN [centroids |-> centroids, assignments |-> assignments, iteration |-> iteration,
          progress |-> <<>>, history |-> <<>>]
    ELSE kMeansAssigned(gpu, emb, k, centroids, assignments, iteration,
                        assignPoints(gpu, emb, k, centroids))

\* The clusters built behind the loop: one per cluster id c < k, members in
\* row order, then sorted by size.
kMeansBuildClusters(loop, k, n) ==
  SortBySizeDesc([c \in 1..k |->
                    [documentIndices |-> IndicesOf(loop.assignments, c - 1, n),
                     centroid |-> loop.centroids[c]]])

\* What a k-means function returns behind its loop, with what the loop
\* reported and did.
kMeansOutcome(loop, k, n) ==
  WithTrace(Returns(kMeansBuildClusters(loop, k, n)), loop.progress, loop.history)

\* topicModeling.ts kMeansClustering(embeddings, k) when the random draws
\* seed the centroids with the rows `seeds`.
kMeansClustering(emb, k, seeds) ==
  LET n == Len(emb)
      dimension == IF n = 0 THEN 0 ELSE Len(emb[1])
  IN  IF n = 0 \/ dimension = 0 THEN Returns(<<>>)
      ELSE IF k > n THEN Diverges
      ELSE kMeansOutcome(kMeansLoop(FALSE, emb, k,
                                    Array([c \in 1..k |-> CopyOf(emb[seeds[c] + 1])]),
                                    Array([i \in 1..n |-> 0]), 0),
                         k, n)

\* webgpuSimilarity.ts kMeansClusteringGPU(embeddings, k) behind the device
\* checks, for dispatches that complete.
kMeansClusteringGPU(emb, k, seeds) ==
  LET n == Len(emb)
      dimension == IF n = 0 THEN 0 ELSE Len(emb[1])
  IN  IF n = 0 \/ dimension = 0 THEN Returns(<<>>)
      ELSE IF k > n THEN Diverges
      ELSE kMeansOutcome(kMeansLoop(TRUE, emb, k,
                                    Array([c \in 1..k |-> CopyOf(emb[seeds[c] + 1])]),
                                    Array([i \in 1..n |-> 0]), 0),
                         k, n)

\* ------------------------------------------------------------------ hierarchical

RECURSIVE SumNums(_, _)
\* totalSim after adding the first n numbers of sims to 0.
SumNums(sims, n) == IF n = 0 THEN <<0, 1>> ELSE Plus(SumNums(sims, n - 1), sims[n])

\* topicModeling.ts:331-346: avgSim of two clusters (lists of rows), the
\* mean of the helper cosine over every cross pair.
averageLinkage(emb, clusterI, clusterJ) ==
  LET count == Len(clusterI) * Len(clusterJ)
      sims == Array([x \in 1..count |->
                 helperCosineSimilarity(emb[clusterI[((x - 1) \div Len(clusterJ)) + 1] + 1],
                                        emb[clusterJ[((x - 1) % Len(clusterJ)) + 1] + 1])])
  IN  Over(SumNums(sims, count), count)

RECURSIVE mostSimilarLinkage(_, _, _, _, _, _)
\* topicModeling.ts:325-353 from (i, j) on: the first pair of greatest
\* avgSim, <<mergeI, mergeJ>> staying as it was when no avgSim is greater.
mostSimilarLinkage(emb, clusters, i, j, maxSim, merge) ==
  IF i >= Len(clusters) THEN merge
  ELSE IF j >= Len(clusters)
    THEN mostSimilarLinkage(emb, clusters, i + 1, i + 2, maxSim, merge)
  ELSE LET avgSim == averageLinkage(emb, clusters[i + 1], clusters[j + 1])
       IN  IF Greater(avgSim, maxSim)
             THEN mostSimilarLinkage(emb, clusters, i, j + 1, avgSim, <<i, j>>)
             ELSE mostSimilarLinkage(emb, clusters, i, j + 1, maxSim, merge)

\* Mutation of MergeInto: cluster j is removed without its members having
\* been added to cluster i.
MergeInto_LosesJ(clusters, mergeI, mergeJ, merged) ==
  Array([x \in 1..(Len(clusters) - 1) |->
           IF x < mergeJ + 1 THEN clusters[x] ELSE clusters[x + 1]])

\* clusters[mergeI] = merged; clusters.splice(mergeJ, 1)
MergeInto(clusters, mergeI, mergeJ, merged) ==
  Array([x \in 1..(Len(clusters) - 1) |->
           IF x = mergeI + 1 THEN merged
           ELSE IF x < mergeJ + 1 THEN clusters[x] ELSE clusters[x + 1]])

RECURSIVE hierarchicalMergeLoop(_, _, _)

\* The end of a pass that merged `merge` into `merged`:
\* onProgress((n - clusters.length) / (n - k)) and the loop test again.
hierarchicalMerged(emb, k, clusters, merge, merged) ==
  WithPass(hierarchicalMergeLoop(emb, k, merged),
           Div(Len(emb) - Len(merged), Len(emb) - k),
           [before |-> clusters, merge |-> merge, after |-> merged])

\* One pass behind its search for the most similar pair (mergeI, mergeJ):
\* `if (clusterI && clusterJ)` merges, else nothing is merged and the loop
\* runs again on the same clusters, reporting the same progress each time.
hierarchicalPass(emb, k, clusters, merge) ==
  IF merge[1] >= Len(clusters) \/ merge[2] >= Len(clusters)
    THEN WithTrace(Diverges, <<Div(Len(emb) - Len(clusters), Len(emb) - k)>>, <<>>)
    ELSE hierarchicalMerged(emb, k, clusters, merge,
                            MergeInto(clusters, merge[1], merge[2],
                                      clusters[merge[1] + 1] \o clusters[merge[2] + 1]))

RECURSIVE hierarchicalMergeLoop_OneShort(_, _, _)
\* Mutation of hierarchicalMergeLoop: the loop stops one merge early.
hierarchicalMergeLoop_OneShort(emb, k, clusters) ==
  IF Len(clusters) <= k + 1 THEN Returns(clusters)
  ELSE LET merge == mostSimilarLinkage(emb, clusters, 0, 1, NegInfinity, <<0, 1>>)
       IN  IF merge[1] >= Len(clusters) \/ merge[2] >= Len(clusters) THEN Diverges
           ELSE hierarchicalMergeLoop_OneShort(emb, k,
                  MergeInto(clusters, merge[1], merge[2],
                            clusters[merge[1] + 1] \o clusters[merge[2] + 1]))

\* The `while (clusters.length > k)` loop of hierarchicalClustering.  When
\* clusters[mergeI] or clusters[mergeJ] is undefined nothing is merged and
\* the loop runs again on the same clusters, reporting the same progress
\* each time.  Every pass ends with onProgress((n - clusters.length) / (n - k)).
hierarchicalMergeLoop(emb, k, clusters) ==
  IF Len(clusters) <= k THEN Returns(clusters)
  ELSE hierarchicalPass(emb, k, clusters,
                        mostSimilarLinkage(emb, clusters, 0, 1, NegInfinity, <<0, 1>>))

\* What hierarchicalClustering returns behind its loop: each cluster with
\* the normalised mean of its members, with what the loop reported and did.
hierarchicalOutcome(emb, dimension, loop) ==
  IF loop.end # "returns" THEN loop
  ELSE WithTrace(Returns([c \in 1..Len(loop.value) |->
                            [documentIndices |-> loop.value[c],
                             centroid |-> meanCentroidUnguarded(emb, dimension,
                                                                loop.value[c])]]),
                 loop.progress, loop.history)

\* topicModeling.ts hierarchicalClustering(embeddings, k)
hierarchicalClustering(emb, k) ==
  hierarchicalOutcome(emb, IF Len(emb) = 0 THEN 0 ELSE Len(emb[1]),
                      hierarchicalMergeLoop(emb, k,
                                            Array([i \in 1..Len(emb) |-> <<i - 1>>])))

\* main of hierarchicalShaderCode for every pairIdx < totalPairs: the
\* similarities buffer, slot pairIdx + 1 holding the guarded cosine of the
\* centroids the index recovery names.
hierarchicalShaderMain(clusters, numClusters) ==
  Array([p \in 1..((numClusters * (numClusters - 1)) \div 2) |->
           LET ij == PairOfIndex(0, p - 1, numClusters - 1, numClusters)
           IN  shaderCosineToCentroid(clusters[ij[1] + 1].centroid.sum,
                                      clusters[ij[2] + 1].centroid)])

RECURSIVE mostSimilarSlot(_, _, _, _, _, _, _)
\* webgpuSimilarity.ts:977-988 from (i, j, pairIdx) on.
mostSimilarSlot(similarities, numClusters, i, j, pairIdx, maxSim, merge) ==
  IF i >= numClusters THEN merge
  ELSE IF j >= numClusters
    THEN mostSimilarSlot(similarities, numClusters, i + 1, i + 2, pairIdx, maxSim, merge)
  ELSE LET sim == similarities[pairIdx + 1]
       IN  IF Greater(sim, maxSim)
             THEN mostSimilarSlot(similarities, numClusters, i, j + 1, pairIdx + 1, sim, <<i, j>>)
             ELSE mostSimilarSlot(similarities, numClusters, i, j + 1, pairIdx + 1, maxSim, merge)

RECURSIVE hierarchicalMergeLoopGPU(_, _, _)

\* The end of a pass that merged `merge` into `merged`:
\* onProgress((n - clusters.length) / (n - k)) and the loop test again.
hierarchicalMergedGPU(emb, k, clusters, merge, merged) ==
  WithPass(hierarchicalMergeLoopGPU(emb, k, merged),
           Div(Len(emb) - Len(merged), Len(emb) - k),
           [before |-> clusters, merge |-> merge, after |-> merged])

\* The cluster a merge makes of the member list mergedDocs: the members
\* and their guarded normalised mean.
mergedCluster(emb, mergedDocs) ==
  [documentIndices |-> mergedDocs,
   centroid |-> meanCentroidGuarded(emb, Len(emb[1]), mergedDocs)]

\* One pass behind its search for the most similar pair (mergeI, mergeJ).
\* Reading clusters[mergeJ].documentIndices of an undefined clusters[mergeJ]
\* throws a TypeError.
hierarchicalPassGPU(emb, k, clusters, merge) ==
  IF merge[1] >= Len(clusters) \/ merge[2] >= Len(clusters) THEN Throws
  ELSE hierarchicalMergedGPU(emb, k, clusters, merge,
         MergeInto(clusters, merge[1], merge[2],
                   mergedCluster(emb, clusters[merge[1] + 1].documentIndices
                                        \o clusters[merge[2] + 1].documentIndices)))

\* The `while (clusters.length > k)` loop of hierarchicalClusteringGPU.
\* Every pass that merges ends with
\* onProgress((n - clusters.length) / (n - k)).
hierarchicalMergeLoopGPU(emb, k, clusters) ==
  IF Len(clusters) <= k THEN Returns(clusters)
  ELSE hierarchicalPassGPU(emb, k, clusters,
         mostSimilarSlot(hierarchicalShaderMain(clusters, Len(clusters)), Len(clusters),
                         0, 1, 0, NegInfinity, <<0, 1>>))

\* What hierarchicalClusteringGPU returns behind its loop: the clusters
\* sorted by size, with what the loop reported and did.
hierarchicalOutcomeGPU(loop) ==
  IF loop.end # "returns" THEN loop
  ELSE WithTrace(Returns(SortBySizeDesc(loop.value)), loop.progress, loop.history)

\* webgpuSimilarity.ts hierarchicalClusteringGPU(embeddings, k) behind the
\* device checks, for dispatches that complete.
hierarchicalClusteringGPU(emb, k) ==
  IF Len(emb) = 0 \/ Len(emb[1]) = 0 THEN Returns(<<>>)
  ELSE hierarchicalOutcomeGPU(
         hierarchicalMergeLoopGPU(emb, k,
           Array([i \in 1..Len(emb) |-> [documentIndices |-> <<i - 1>>,
                                          centroid |-> CopyOf(emb[i])]])))

\* ------------------------------------------------------------------ state

VARIABLES
  navigatorGpu,       \* environment: navigator.gpu exists
  gpuDevice,          \* module variable gpuDevice: "null" or "device"
  isWebGPUAvailable,  \* module variable isWebGPUAvailable
  pc,                 \* where the running call stands; "idle" between calls
  call,               \* the running (or last) call: [fn, k, method, a, b]
  embeddings,         \* the embeddings every call of the run is given
  initialized,        \* what the call's initializeWebGPU() returned
  ret,                \* how the last call ended: [status, via, value]
  probes,             \* navigator.gpu.requestAdapter() calls so far (saturating)
  failedProbe,        \* some probe has ended without a device
  gpuFailed,          \* the last finished call was a performClustering whose
                      \* GPU run failed mid-flight
  undestroyed,        \* GPU buffers the running (or last) call has created
                      \* and not destroyed
  reported,           \* the values the running (or last) clustering call has
                      \* passed to its onProgress, in order
  history             \* the passes of the loop of the clustering function
                      \* that ended the last call

\* One dispatch of a compute shader, as the device runs it.
VARIABLES
  kernel,             \* the dispatched shader and what its bindings hold:
                      \* [shader, emb, seeds]; shader "none" before a dispatch
  stored,             \* per invocation: the stores it has performed so far
  returned,           \* the invocations that returned at the bounds test
  buffer,             \* the read_write storage buffer, slot p at p + 1
  written,            \* every store so far, as << invocation, slot >>
  staging             \* the staging buffer: [mapped, data]

\* One Pinia store of the application and the embedding module it imports.
VARIABLES
  storeKind,          \* "comparison" or "topicModeling"; "none" without a store
  selectedModel,      \* ref selectedModel
  isModelLoading,     \* ref isModelLoading
  isModelReady,       \* ref isModelReady
  csvRows,            \* ref csvRows: the rows, each a record of cells
  columns,            \* ref comparisonColumns / analysisColumns
  storeEmbeddings,    \* ref embeddings: vectors as [model, text]
  results,            \* ref similarityResults / topics, as their length
  inFlight,           \* the runs suspended at an await:
                      \* [phase, texts, embeddings, generated]
  lastRun,            \* how the last runComparison / runTopicModeling call
                      \* began: "none", "throws" or "started"
  embeddingPipeline,  \* module variable: "null" or the model of the pipeline
  currentModel,       \* module variable currentModel: "null" or a model
  isInitializing,     \* module variable isInitializing
  loading,            \* the model the pending initializationPromise loads
  requested           \* the model the suspended loadModel() asked for

engineVars == << navigatorGpu, gpuDevice, isWebGPUAvailable, pc, call, embeddings,
                 initialized, ret, probes, failedProbe, gpuFailed, undestroyed,
                 reported, history >>

dispatchVars == << kernel, stored, returned, buffer, written, staging >>

storeRefs == << storeKind, selectedModel, isModelLoading, isModelReady, csvRows,
                columns, storeEmbeddings, results, inFlight, lastRun, requested >>

moduleVars == << embeddingPipeline, currentModel, isInitializing, loading >>

storeVars == << storeRefs, moduleVars >>

vars == << engineVars, dispatchVars, storeVars >>

\* No shader has been dispatched.
NoDispatch ==
  /\ kernel = [shader |-> "none", emb |-> <<>>, seeds |-> <<>>]
  /\ stored = <<>>
  /\ returned = {}
  /\ buffer = <<>>
  /\ written = {}
  /\ staging = [mapped |-> FALSE, data |-> <<>>]

\* No store has been created.
NoStore ==
  /\ storeKind = "none"
  /\ selectedModel = "null"
  /\ isModelLoading = FALSE
  /\ isModelReady = FALSE
  /\ csvRows = <<>>
  /\ columns = <<>>
  /\ storeEmbeddings = <<>>
  /\ results = 0
  /\ inFlight = <<>>
  /\ lastRun = "none"
  /\ embeddingPipeline = "null"
  /\ currentModel = "null"
  /\ isInitializing = FALSE
  /\ loading = "null"
  /\ requested = "null"

\* No call of the similarity and clustering functions is running.
NoCall ==
  /\ navigatorGpu = TRUE
  /\ gpuDevice = "null"
  /\ isWebGPUAvailable = FALSE
  /\ pc = "idle"
  /\ call = [fn |-> "none", k |-> 0, method |-> "none", a |-> 0, b |-> 0]
  /\ embeddings = <<>>
  /\ initialized = FALSE
  /\ ret = [status |-> "none", via |-> "none", value |-> <<>>]
  /\ probes = 0
  /\ failedProbe = FALSE
  /\ gpuFailed = FALSE
  /\ undestroyed = 0
  /\ reported = <<>>
  /\ history = <<>>

NoRet == [status |-> "none", via |-> "none", value |-> <<>>]

Returned(via, value) == [status |-> "ok", via |-> via, value |-> value]

Thrown(via) == [status |-> "error", via |-> via, value |-> <<>>]

\* A pure function's outcome as the outcome of the call.
Outcome(via, r) == IF r.throws THEN Thrown(via) ELSE Returned(via, r.value)

\* webgpuSimilarity.ts isWebGPUAvailableForSimilarity()
isWebGPUAvailableForSimilarity == isWebGPUAvailable /\ gpuDevice # "null"

Init ==
  /\ navigatorGpu \in BOOLEAN
  /\ gpuDevice = "null"
  /\ isWebGPUAvailable = FALSE
  /\ pc = "idle"
  /\ call = [fn |-> "none", k |-> 0, method |-> "none", a |-> 0, b |-> 0]
  /\ embeddings \in VectorLists
  /\ initialized = FALSE
  /\ ret = NoRet
  /\ probes = 0
  /\ failedProbe = FALSE
  /\ gpuFailed = FALSE
  /\ undestroyed = 0
  /\ reported = <<>>
  /\ history = <<>>
  /\ NoDispatch
  /\ NoStore

\* ------------------------------------------------------------------ the probe

\* initializeWebGPU() up to its first await, entered from the call c: it
\* returns true at once when the device exists, false at once without
\* navigator.gpu, and otherwise requests an adapter.
initializeWebGPU(c) ==
  /\ call' = c
  /\ ret' = NoRet
  /\ undestroyed' = 0
  /\ reported' = <<>>
  /\ history' = <<>>
  /\ IF gpuDevice # "null"
       THEN pc' = "initDone" /\ initialized' = TRUE /\ probes' = probes
     ELSE IF ~navigatorGpu
       THEN pc' = "initDone" /\ initialized' = FALSE /\ probes' = probes
     ELSE /\ pc' = "requestAdapter"
          /\ initialized' = FALSE
          /\ probes' = IF probes < ProbeCap THEN probes + 1 ELSE probes
  /\ UNCHANGED << navigatorGpu, gpuDevice, isWebGPUAvailable, embeddings, failedProbe,
                  gpuFailed >>

\* await navigator.gpu.requestAdapter() settles: with an adapter (the device
\* is requested next), with null, or by rejecting (caught, logged).
RequestAdapterSettles ==
  /\ pc = "requestAdapter"
  /\ UNCHANGED << dispatchVars, storeVars >>
  /\ \E outcome \in {"adapter", "null", "rejects"} :
       IF outcome = "adapter"
         THEN pc' = "requestDevice" /\ UNCHANGED << initialized, failedProbe >>
         ELSE pc' = "initDone" /\ initialized' = FALSE /\ failedProbe' = TRUE
  /\ UNCHANGED << navigatorGpu, gpuDevice, isWebGPUAvailable, call, embeddings,
                  ret, probes, gpuFailed, undestroyed, reported, history >>

\* await adapter.requestDevice() settles: the device is stored and the flag
\* set, or the rejection is caught and logged.
RequestDeviceSettles ==
  /\ pc = "requestDevice"
  /\ UNCHANGED << dispatchVars, storeVars >>
  /\ \E outcome \in {"device", "rejects"} :
       IF outcome = "device"
         THEN /\ gpuDevice' = "device"
              /\ isWebGPUAvailable' = TRUE
              /\ initialized' = TRUE
              /\ UNCHANGED failedProbe
         ELSE /\ initialized' = FALSE
              /\ failedProbe' = TRUE
              /\ UNCHANGED << gpuDevice, isWebGPUAvailable >>
  /\ pc' = "initDone"
  /\ UNCHANGED << navigatorGpu, call, embeddings, ret, probes, gpuFailed, undestroyed,
                  reported, history >>

\* ------------------------------------------------------------------ calls

PairsCall(fn) == [fn |-> fn, k |-> 0, method |-> "none", a |-> 0, b |-> 0]

ClusterCall(fn, method, k) == [fn |-> fn, k |-> k, method |-> method, a |-> 0, b |-> 0]

\* The values of k a caller passes.
KValues == 0..MaxK

Methods == {"kmeans", "hierarchical"}

\* The seedings the random draws of a k-means run can produce (one dummy
\* when no seeding ends).
SeedChoices(emb, k) == IF k <= Len(emb) THEN SeedSeqs(Len(emb), k) ELSE {<<>>}

\* The CPU implementation performClustering selects for the method.
cpuClustering(method, emb, k, seeds) ==
  IF method = "kmeans" THEN kMeansClustering(emb, k, seeds)
  ELSE hierarchicalClustering(emb, k)

\* The GPU implementation performClustering selects for the method.
gpuClustering(method, emb, k, seeds) ==
  IF method = "kmeans" THEN kMeansClusteringGPU(emb, k, seeds)
  ELSE hierarchicalClusteringGPU(emb, k)

\* The GPU clustering function of the method reaches a WebGPU call: behind
\* the short-circuit and, for k-means, behind the seeding loop.
clusteringUsesDevice(method, emb, k) ==
  /\ Len(emb) > 0
  /\ Len(emb[1]) > 0
  /\ method = "kmeans" => k <= Len(emb)

\* The buffers calculateSimilaritiesOnGPU creates: embeddingsBuffer,
\* resultsBuffer, paramsBuffer, stagingBuffer.
similarityBuffers == 4

\* The buffers kMeansClusteringGPU creates: pointsBuffer, centroidsBuffer,
\* assignmentsBuffer, paramsBuffer, stagingBuffer.
kMeansBuffers == 5

\* The buffers one pass of the merge loop of hierarchicalClusteringGPU
\* creates, and destroys behind its read-back: centroidsBuffer,
\* clusterSizesBuffer, similaritiesBuffer, paramsBuffer, stagingBuffer.
hierarchicalBuffers == 5

\* The most buffers a GPU clustering function has alive at one time.
clusteringBuffers(method, emb, k) ==
  IF method = "kmeans" THEN kMeansBuffers
  ELSE IF Len(emb) > k THEN hierarchicalBuffers ELSE 0

\* The running call ends as the clustering function that produced r ends,
\* `before` being what the call had reported to onProgress before that
\* function began.
Finish(via, r, failed, before) ==
  /\ gpuFailed' = failed
  /\ reported' = before \o r.progress
  /\ history' = r.history
  /\ IF r.end = "diverges" THEN pc' = "hung" /\ ret' = NoRet
     ELSE IF r.end = "throws" THEN pc' = "idle" /\ ret' = Thrown(via)
     ELSE pc' = "idle" /\ ret' = Returned(via, r.value)

\* Mutation of FallBackToCpu: no catch, the GPU function's error reaches the
\* caller of performClustering.
FallBackToCpu_Rethrow(failed, before) ==
  /\ IF failed
       THEN Finish("gpu", Throws, failed, before)
       ELSE \E seeds \in SeedChoices(embeddings, call.k) :
              Finish("cpu", cpuClustering(call.method, embeddings, call.k, seeds), failed,
                     before)
  /\ UNCHANGED << gpuDevice, isWebGPUAvailable >>

\* Mutation of FallBackToCpu: a caught GPU error also clears the
\* availability flag.
FallBackToCpu_Downgrade(failed, before) ==
  /\ \E seeds \in SeedChoices(embeddings, call.k) :
       Finish("cpu", cpuClustering(call.method, embeddings, call.k, seeds), failed, before)
  /\ isWebGPUAvailable' = (isWebGPUAvailable /\ ~failed)
  /\ UNCHANGED gpuDevice

\* performClustering from its catch block on (topicModeling.ts:179-190):
\* the error, if any (failed), is logged and the CPU implementation of the
\* method runs on the same embeddings and k, with the same onProgress.  No
\* module variable is written.
FallBackToCpu(failed, before) ==
  /\ \E seeds \in SeedChoices(embeddings, call.k) :
       Finish("cpu", cpuClustering(call.method, embeddings, call.k, seeds), failed, before)
  /\ UNCHANGED << gpuDevice, isWebGPUAvailable >>

\* The head of the three exported GPU functions: with a device the body is
\* next, without one `await initializeWebGPU()`.
EnterGPUFunction(c) ==
  IF gpuDevice # "null"
    THEN /\ pc' = "gpuBody"
         /\ call' = c
         /\ ret' = NoRet
         /\ undestroyed' = 0
         /\ reported' = <<>>
         /\ history' = <<>>
         /\ UNCHANGED << navigatorGpu, gpuDevice, isWebGPUAvailable, embeddings,
                         initialized, probes, failedProbe, gpuFailed >>
    ELSE initializeWebGPU(c)

\* A caller invokes cosineSimilarity(embeddings[a], embeddings[b]) (a and b
\* are 0-based rows): synchronous.
CallCosineSimilarity ==
  /\ pc = "idle"
  /\ UNCHANGED << dispatchVars, storeVars >>
  /\ \E a, b \in 0..(Len(embeddings) - 1) :
       /\ call' = [fn |-> "cosineSimilarity", k |-> 0, method |-> "none", a |-> a, b |-> b]
       /\ ret' = Outcome("cpu", cosineSimilarity(embeddings[a + 1], embeddings[b + 1]))
  /\ gpuFailed' = FALSE
  /\ undestroyed' = 0
  /\ reported' = <<>>
  /\ history' = <<>>
  /\ UNCHANGED << navigatorGpu, gpuDevice, isWebGPUAvailable, pc, embeddings,
                  initialized, probes, failedProbe >>

\* A caller invokes calculatePairwiseSimilarities(embeddings): synchronous.
CallCalculatePairwiseSimilarities ==
  /\ pc = "idle"
  /\ UNCHANGED << dispatchVars, storeVars >>
  /\ ret' = Outcome("cpu", calculatePairwiseSimilarities(embeddings))
  /\ call' = PairsCall("calculatePairwiseSimilarities")
  /\ gpuFailed' = FALSE
  /\ undestroyed' = 0
  /\ reported' = <<>>
  /\ history' = <<>>
  /\ UNCHANGED << navigatorGpu, gpuDevice, isWebGPUAvailable, pc, embeddings,
                  initialized, probes, failedProbe >>

\* A caller invokes calculateSimilaritiesOnGPU(embeddings).
CallCalculateSimilaritiesOnGPU ==
  /\ pc = "idle"
  /\ UNCHANGED << dispatchVars, storeVars >>
  /\ EnterGPUFunction(PairsCall("calculateSimilaritiesOnGPU"))

\* A caller invokes kMeansClusteringGPU(embeddings, k).
CallKMeansClusteringGPU ==
  /\ pc = "idle"
  /\ UNCHANGED << dispatchVars, storeVars >>
  /\ embeddings \in VectorSets
  /\ \E k \in KValues : EnterGPUFunction(ClusterCall("kMeansClusteringGPU", "kmeans", k))

\* A caller invokes hierarchicalClusteringGPU(embeddings, k).
CallHierarchicalClusteringGPU ==
  /\ pc = "idle"
  /\ UNCHANGED << dispatchVars, storeVars >>
  /\ embeddings \in VectorSets
  /\ \E k \in KValues :
       EnterGPUFunction(ClusterCall("hierarchicalClusteringGPU", "hierarchical", k))

\* A caller invokes performClustering(embeddings, k, method): it awaits
\* initializeWebGPU() unless the backend is already available.
CallPerformClustering ==
  /\ pc = "idle"
  /\ UNCHANGED << dispatchVars, storeVars >>
  /\ embeddings \in VectorSets
  /\ \E k \in KValues, method \in Methods :
       IF isWebGPUAvailableForSimilarity
         THEN /\ pc' = "gpuBody"
              /\ call' = ClusterCall("performClustering", method, k)
              /\ ret' = NoRet
              /\ undestroyed' = 0
              /\ reported' = <<>>
              /\ history' = <<>>
              /\ UNCHANGED << navigatorGpu, gpuDevice, isWebGPUAvailable, embeddings,
                              initialized, probes, failedProbe, gpuFailed >>
         ELSE initializeWebGPU(ClusterCall("performClustering", method, k))

\* An exported GPU function resumes behind `await initializeWebGPU()`: it
\* throws 'WebGPU not available' (or 'GPU device not initialized') unless
\* the probe gave a device.
GPUFunctionAfterInit ==
  /\ pc = "initDone"
  /\ UNCHANGED << dispatchVars, storeVars >>
  /\ call.fn \in {"calculateSimilaritiesOnGPU", "kMeansClusteringGPU",
                  "hierarchicalClusteringGPU"}
  /\ IF ~initialized \/ gpuDevice = "null"
       THEN pc' = "idle" /\ ret' = Thrown("gpu") /\ gpuFailed' = FALSE
       ELSE pc' = "gpuBody" /\ UNCHANGED << ret, gpuFailed >>
  /\ UNCHANGED << navigatorGpu, gpuDevice, isWebGPUAvailable, call, embeddings,
                  initialized, probes, failedProbe, undestroyed, reported, history >>

\* performClustering resumes behind `await initializeWebGPU()`: the GPU
\* function of the method if the backend is available now, else the CPU one.
PerformClusteringAfterInit ==
  /\ pc = "initDone"
  /\ UNCHANGED << dispatchVars, storeVars >>
  /\ call.fn = "performClustering"
  /\ IF isWebGPUAvailableForSimilarity
       THEN pc' = "gpuBody" /\ UNCHANGED << ret, gpuFailed, gpuDevice, isWebGPUAvailable,
                                            reported, history >>
       ELSE FallBackToCpu(FALSE, <<>>)
  /\ UNCHANGED << navigatorGpu, call, embeddings, initialized, probes, failedProbe,
                  undestroyed >>

\* The body of calculateSimilaritiesOnGPU runs to its return.
SimilaritiesOnGPUCompletes ==
  /\ pc = "gpuBody"
  /\ UNCHANGED << dispatchVars, storeVars >>
  /\ call.fn = "calculateSimilaritiesOnGPU"
  /\ pc' = "idle"
  /\ ret' = Outcome("gpu", similaritiesOnGPU(embeddings))
  /\ gpuFailed' = FALSE
  /\ undestroyed' = 0
  /\ UNCHANGED << reported, history >>
  /\ UNCHANGED << navigatorGpu, gpuDevice, isWebGPUAvailable, call, embeddings,
                  initialized, probes, failedProbe >>

\* A WebGPU call of the body throws or mapAsync rejects (device lost, out of
\* memory): nothing in calculateSimilaritiesOnGPU catches it, and the
\* destroy() calls at the end of the body are not reached, whichever of the
\* buffers exist by then.
SimilaritiesOnGPUFails ==
  /\ pc = "gpuBody"
  /\ UNCHANGED << dispatchVars, storeVars >>
  /\ call.fn = "calculateSimilaritiesOnGPU"
  /\ similaritiesUsesDevice(embeddings)
  /\ pc' = "idle"
  /\ ret' = Thrown("gpu")
  /\ gpuFailed' = FALSE
  /\ \E created \in 0..similarityBuffers : undestroyed' = created
  /\ UNCHANGED << reported, history >>
  /\ UNCHANGED << navigatorGpu, gpuDevice, isWebGPUAvailable, call, embeddings,
                  initialized, probes, failedProbe >>

\* The GPU clustering function ends with r by itself: what it throws inside
\* performClustering is caught there, behind what it reported.
GPUClusteringEnds(r) ==
  IF r.end = "throws" /\ call.fn = "performClustering"
    THEN FallBackToCpu(TRUE, r.progress)
    ELSE Finish("gpu", r, FALSE, <<>>) /\ UNCHANGED << gpuDevice, isWebGPUAvailable >>

\* A WebGPU call throws in a GPU clustering function that would end with r:
\* in some pass of its loop, behind the progress reports of the passes
\* before.
GPUClusteringThrows(r) ==
  \E passes \in 0..Len(r.progress) :
    /\ passes = Len(r.progress) => (passes = 0 \/ r.end = "throws")
    /\ IF call.fn = "performClustering"
         THEN FallBackToCpu(TRUE, SubSeq(r.progress, 1, passes))
         ELSE Finish("gpu", Throws, FALSE, SubSeq(r.progress, 1, passes))
                /\ UNCHANGED << gpuDevice, isWebGPUAvailable >>
    /\ \E created \in 0..clusteringBuffers(call.method, embeddings, call.k) :
         /\ (call.method = "kmeans" /\ passes > 0) => created = kMeansBuffers
         /\ undestroyed' = created

\* The body of a GPU clustering function runs with every WebGPU call
\* succeeding: it returns, never leaves its loop, or throws by itself; what
\* it throws inside performClustering is caught there.
ClusteringGPUCompletes ==
  /\ pc = "gpuBody"
  /\ UNCHANGED << dispatchVars, storeVars >>
  /\ call.fn \in {"performClustering", "kMeansClusteringGPU", "hierarchicalClusteringGPU"}
  /\ \E seeds \in SeedChoices(embeddings, call.k) :
       GPUClusteringEnds(gpuClustering(call.method, embeddings, call.k, seeds))
  /\ undestroyed' = 0
  /\ UNCHANGED << navigatorGpu, call, embeddings, initialized, probes, failedProbe >>

\* A WebGPU call of a GPU clustering function throws or mapAsync rejects
\* (device lost, out of memory) in some pass of its loop, behind the
\* progress reports of the passes before: performClustering catches it, a
\* direct caller receives it.  The destroy() calls behind the failing call are not
\* reached, whichever of the buffers exist by then.
ClusteringGPUFails ==
  /\ pc = "gpuBody"
  /\ UNCHANGED << dispatchVars, storeVars >>
  /\ call.fn \in {"performClustering", "kMeansClusteringGPU", "hierarchicalClusteringGPU"}
  /\ clusteringUsesDevice(call.method, embeddings, call.k)
  /\ \E seeds \in SeedChoices(embeddings, call.k) :
       GPUClusteringThrows(gpuClustering(call.method, embeddings, call.k, seeds))
  /\ UNCHANGED << navigatorGpu, call, embeddings, initialized, probes, failedProbe >>

Next ==
  \/ RequestAdapterSettles
  \/ RequestDeviceSettles
  \/ CallCosineSimilarity
  \/ CallCalculatePairwiseSimilarities
  \/ CallCalculateSimilaritiesOnGPU
  \/ CallKMeansClusteringGPU
  \/ CallHierarchicalClusteringGPU
  \/ CallPerformClustering
  \/ GPUFunctionAfterInit
  \/ PerformClusteringAfterInit
  \/ SimilaritiesOnGPUCompletes
  \/ SimilaritiesOnGPUFails
  \/ ClusteringGPUCompletes
  \/ ClusteringGPUFails

Spec == Init /\ [][Next]_vars

\* ------------------------------------------------------------------ one dispatch
(***************************************************************************)
(* dispatchWorkgroups(Math.ceil(count / 64)) starts whole workgroups of    *)
(* invocations, which the device runs in any order and interleaving; the   *)
(* copy to the staging buffer follows the compute pass.  An invocation is  *)
(* one run of a shader's main; the storage buffers it reads are bound      *)
(* read-only, so what it stores depends on its index alone.                *)
(***************************************************************************)

\* @workgroup_size(64), scaled down.
WorkgroupSize == 4

Shaders == {"similarity", "kmeans", "hierarchical"}

\* The work count a shader's main tests its index against: params.totalPairs,
\* params.numPoints, or totalPairs of params.numClusters.
workCount(kern) ==
  IF kern.shader = "kmeans" THEN Len(kern.emb)
  ELSE (Len(kern.emb) * (Len(kern.emb) - 1)) \div 2

\* The global invocation ids of dispatchWorkgroups(Math.ceil(count / 64)).
invocations(kern) ==
  0..((((workCount(kern) + WorkgroupSize - 1) \div WorkgroupSize) * WorkgroupSize) - 1)

\* The slots of the read_write buffer per work item: results holds three
\* f32 per pair, similarities one f32 per pair, assignments one u32 per point.
slotsPerItem(shader) == IF shader = "similarity" THEN 3 ELSE 1

\* The length of the read_write buffer as createBuffer sizes it.
bufferSlots(kern) == workCount(kern) * slotsPerItem(kern.shader)

\* What createBuffer fills the read_write buffer with: 0.0 or 0u.
zeroSlot(shader) == IF shader = "kmeans" THEN 0 ELSE Div(0, 1)

\* Mutation of shaderMain: a result offset of two slots per pair.
shaderMain_SharedOffset(kern, index) ==
  IF index >= workCount(kern) THEN <<>>
  ELSE IF kern.shader = "similarity" THEN
    LET vectorDim == Len(kern.emb[1])
        r == similarityShaderMain(Flatten(kern.emb, vectorDim).value, Len(kern.emb),
                                  vectorDim, index)
        resultOffset == index * 2
    IN  << <<resultOffset, r[1]>>, <<resultOffset + 1, r[2]>>, <<resultOffset + 2, r[3]>> >>
  ELSE IF kern.shader = "kmeans" THEN
    LET centroids == Array([c \in 1..Len(kern.seeds) |-> CopyOf(kern.emb[kern.seeds[c] + 1])])
    IN  << <<index, nearestCentroidShader(kern.emb[index + 1], centroids, Len(kern.seeds),
                                          0, <<-1, 1>>, 0)>> >>
  ELSE
    LET clusters == Array([i \in 1..Len(kern.emb) |->
                             [documentIndices |-> <<i - 1>>, centroid |-> CopyOf(kern.emb[i])]])
    IN  << <<index, hierarchicalShaderMain(clusters, Len(kern.emb))[index + 1]>> >>

\* main of the three shaders for the invocation `index`: the stores it
\* performs, in program order, each as << slot, value >>.  An invocation at
\* or past the work count returns at the bounds test.  The k-means kernel
\* is bound to the seeded centroids, the hierarchical kernel to the
\* singleton clusters.
shaderMain(kern, index) ==
  IF index >= workCount(kern) THEN <<>>
  ELSE IF kern.shader = "similarity" THEN
    LET vectorDim == Len(kern.emb[1])
        r == similarityShaderMain(Flatten(kern.emb, vectorDim).value, Len(kern.emb),
                                  vectorDim, index)
        resultOffset == index * 3
    IN  << <<resultOffset, r[1]>>, <<resultOffset + 1, r[2]>>, <<resultOffset + 2, r[3]>> >>
  ELSE IF kern.shader = "kmeans" THEN
    LET centroids == Array([c \in 1..Len(kern.seeds) |-> CopyOf(kern.emb[kern.seeds[c] + 1])])
    IN  << <<index, nearestCentroidShader(kern.emb[index + 1], centroids, Len(kern.seeds),
                                          0, <<-1, 1>>, 0)>> >>
  ELSE
    LET clusters == Array([i \in 1..Len(kern.emb) |->
                             [documentIndices |-> <<i - 1>>, centroid |-> CopyOf(kern.emb[i])]])
    IN  << <<index, hierarchicalShaderMain(clusters, Len(kern.emb))[index + 1]>> >>

\* queue.submit of a command buffer holding one compute pass: the buffers
\* are created (zero-filled) and bound, and every invocation is yet to run.
SubmitDispatch ==
  /\ kernel.shader = "none" \/ staging.mapped
  /\ \E shader \in Shaders, emb \in VectorSets, k \in KValues :
       /\ Len(emb) > 0
       /\ Len(emb[1]) > 0
       /\ IF shader = "kmeans" THEN k <= Len(emb) ELSE k = 0
       /\ \E seeds \in SeedSeqs(Len(emb), k) :
            LET kern == [shader |-> shader, emb |-> emb, seeds |-> seeds]
            IN  /\ kernel' = kern
                /\ stored' = [p \in invocations(kern) |-> 0]
                /\ buffer' = [x \in 1..bufferSlots(kern) |-> zeroSlot(shader)]
  /\ returned' = {}
  /\ written' = {}
  /\ staging' = [mapped |-> FALSE, data |-> <<>>]
  /\ UNCHANGED << engineVars, storeVars >>

\* An invocation has run main to its end.
finished(p) ==
  \/ p \in returned
  \/ p < workCount(kernel) /\ stored[p] = Len(shaderMain(kernel, p))

\* Some invocation at or past the work count runs: it returns at the
\* bounds test.
InvocationReturns ==
  /\ kernel.shader # "none"
  /\ ~staging.mapped
  /\ \E p \in invocations(kernel) \ returned :
       /\ p >= workCount(kernel)
       /\ returned' = returned \cup {p}
  /\ UNCHANGED << kernel, stored, buffer, written, staging, engineVars, storeVars >>

\* Some invocation below the work count performs its next store.
InvocationStores ==
  /\ kernel.shader # "none"
  /\ ~staging.mapped
  /\ \E p \in invocations(kernel) :
       /\ stored[p] < Len(shaderMain(kernel, p))
       /\ LET st == shaderMain(kernel, p)[stored[p] + 1]
          IN  /\ buffer' = IF st[1] < Len(buffer)
                             THEN [buffer EXCEPT ![st[1] + 1] = st[2]]
                             ELSE buffer
              /\ written' = written \cup {<<p, st[1]>>}
       /\ stored' = [stored EXCEPT ![p] = @ + 1]
  /\ UNCHANGED << kernel, returned, staging, engineVars, storeVars >>

\* copyBufferToBuffer behind the compute pass, and mapAsync resolving: the
\* staging buffer holds the read_write buffer as the pass left it.
MapStaging ==
  /\ kernel.shader # "none"
  /\ ~staging.mapped
  /\ \A p \in invocations(kernel) : finished(p)
  /\ staging' = [mapped |-> TRUE, data |-> buffer]
  /\ UNCHANGED << kernel, stored, returned, buffer, written, engineVars, storeVars >>

DispatchInit == NoCall /\ NoDispatch /\ NoStore

DispatchNext ==
  \/ SubmitDispatch
  \/ InvocationReturns
  \/ InvocationStores
  \/ MapStaging

DispatchSpec == DispatchInit /\ [][DispatchNext]_vars

\* ------------------------------------------------------------------ the stores
(***************************************************************************)
(* useComparisonStore and useTopicModelingStore hold the same refs and the *)
(* same handlers up to names; storeKind says which of the two was created. *)
(* The store imports one embedding module (embeddings.ts for the           *)
(* comparison store, topicModeling.ts for the topic-modeling store), whose *)
(* module variables are the pipeline, currentModel, isInitializing and the *)
(* pending initializationPromise.  A cell is a string; the text of a row   *)
(* is the list of the cells the selected columns name, which stands for    *)
(* their join with ' '; a vector is [model, text], the embedding of that   *)
(* text by that model's pipeline.  Results are represented by their        *)
(* number; the error text, file and sheet names, display columns, settings *)
(* and progress are not represented, nor is the adapter request            *)
(* topicModeling.ts initializeModel awaits before its first test.          *)
(***************************************************************************)

MaxRows == 2

MaxInFlight == 1

Stores == {"comparison", "topicModeling"}

\* Two of AVAILABLE_MODELS; the first is the initial selectedModel.
Models == {"Xenova/bge-small-en-v1.5", "Xenova/all-MiniLM-L6-v2"}

DefaultModel == "Xenova/bge-small-en-v1.5"

\* The column names of a loaded file.
Headers == {"a", "b"}

\* The cells of a loaded file: the empty string and one other string.
Cells == {"", "x"}

\* The row lists a parse can resolve with.
RowLists == SeqsUpTo([Headers -> Cells], MaxRows)

\* The column lists a caller can select: names of the file, none twice.
ColumnLists ==
  { cols \in SeqsUpTo(Headers, Cardinality(Headers)) :
      \A i, j \in 1..Len(cols) : cols[i] = cols[j] => i = j }

\* columns.map((col) => row[col] || '').join(' '), as the list of the cells.
textOf(row, cols) == [i \in 1..Len(cols) |-> row[cols[i]]]

\* The join of the cells is the empty string: `!text`.
isEmptyText(text) == Len(text) = 0 \/ (Len(text) = 1 /\ text[1] = "")

\* csvRows.value.map((row) => ...): one text per row.
textsOf(rows, cols) == [r \in 1..Len(rows) |-> textOf(rows[r], cols)]

\* generateEmbedding(text) with the pipeline of `model` loaded.
generateEmbedding(model, text) == [model |-> model, text |-> text]

RECURSIVE generateEmbeddings(_, _, _)
\* The loop of topicModeling.ts generateEmbeddings from text i on: an empty
\* text is skipped (`if (!text) continue`), every other one is pushed.
generateEmbeddings(texts, model, i) ==
  IF i > Len(texts) THEN <<>>
  ELSE IF isEmptyText(texts[i]) THEN generateEmbeddings(texts, model, i + 1)
  ELSE <<generateEmbedding(model, texts[i])>> \o generateEmbeddings(texts, model, i + 1)

\* The loop of embeddings.ts generateEmbeddings: every text is pushed.
generateEmbeddingsOfAll(texts, model) ==
  [i \in 1..Len(texts) |-> generateEmbedding(model, texts[i])]

\* computed hasData
hasData == Len(csvRows) > 0

\* Mutation of canCompare: no model gate.
canCompare_NoModelGate == hasData /\ Len(columns) > 0

\* computed canCompare of the comparison store
canCompare == hasData /\ Len(columns) > 0 /\ isModelReady

\* computed canAnalyze of the topic-modeling store
canAnalyze == hasData /\ Len(columns) > 0 /\ isModelReady

\* initializeModel(modelName) up to its return: the module variables it
\* leaves, and whether it returned without a promise to wait for (settled).
\* A call made while a load is pending returns the pending promise, whatever
\* model that load is for.
initializeModel(modelName) ==
  IF embeddingPipeline # "null" /\ currentModel = modelName
    THEN [embeddingPipeline |-> embeddingPipeline, currentModel |-> currentModel,
          isInitializing |-> isInitializing, loading |-> loading, settled |-> TRUE]
  ELSE LET reset == currentModel # "null" /\ currentModel # modelName
       IN  [embeddingPipeline |-> IF reset THEN "null" ELSE embeddingPipeline,
            currentModel |-> IF reset THEN "null" ELSE currentModel,
            isInitializing |-> TRUE,
            loading |-> IF isInitializing THEN loading ELSE modelName,
            settled |-> FALSE]

\* The module variables become those of r.
SetModule(r) ==
  /\ embeddingPipeline' = r.embeddingPipeline
  /\ currentModel' = r.currentModel
  /\ isInitializing' = r.isInitializing
  /\ loading' = r.loading

\* loadModel() behind its early return, up to the end when initializeModel
\* returned at once and up to `await initializeModel(...)` otherwise.
StartLoad(modelName) ==
  LET r == initializeModel(modelName)
  IN  /\ SetModule(r)
      /\ IF r.settled
           THEN isModelReady' = TRUE /\ isModelLoading' = FALSE /\ requested' = "null"
           ELSE isModelReady' = FALSE /\ isModelLoading' = TRUE /\ requested' = modelName

\* Store creation: the setup function ends with loadModel(), which runs to
\* its `await initializeModel(...)`.
StoreInit ==
  /\ NoCall
  /\ NoDispatch
  /\ storeKind \in Stores
  /\ selectedModel = DefaultModel
  /\ isModelLoading = TRUE
  /\ isModelReady = FALSE
  /\ csvRows = <<>>
  /\ columns = <<>>
  /\ storeEmbeddings = <<>>
  /\ results = 0
  /\ inFlight = <<>>
  /\ lastRun = "none"
  /\ embeddingPipeline = "null"
  /\ currentModel = "null"
  /\ isInitializing = TRUE
  /\ loading = DefaultModel
  /\ requested = DefaultModel

\* loadModel() called while no model is ready or loading; otherwise it
\* returns at once.
LoadModel ==
  /\ ~(isModelReady \/ isModelLoading)
  /\ StartLoad(selectedModel)
  /\ UNCHANGED << storeKind, selectedModel, csvRows, columns, storeEmbeddings, results,
                  inFlight, lastRun, engineVars, dispatchVars >>

\* The run r behind `await initializeModel(modelName)` of generateEmbeddings.
AfterInitialize(r) ==
  IF r.phase = "initializing" THEN [r EXCEPT !.phase = "embeddings"] ELSE r

\* The runs of q that do not wait for initializeModel.
NotInitializing(r) == r.phase # "initializing"

\* The pending pipeline(...) call settles.  Resolved: the pipeline and
\* currentModel are those of the model it loaded.  Whoever awaits the
\* promise resumes: loadModel() sets isModelReady when it resolved, and
\* finally isModelLoading = false; a run inside generateEmbeddings goes on
\* to its loop, or throws when it rejected.
InitializeModelSettles ==
  /\ isInitializing
  /\ \E resolved \in BOOLEAN :
       /\ embeddingPipeline' = IF resolved THEN loading ELSE embeddingPipeline
       /\ currentModel' = IF resolved THEN loading ELSE currentModel
       /\ IF isModelLoading
            THEN /\ isModelReady' = (resolved \/ isModelReady)
                 /\ isModelLoading' = FALSE
                 /\ requested' = "null"
            ELSE UNCHANGED << isModelReady, isModelLoading, requested >>
       /\ inFlight' = IF resolved
                        THEN [i \in 1..Len(inFlight) |-> AfterInitialize(inFlight[i])]
                        ELSE SelectSeq(inFlight, NotInitializing)
  /\ isInitializing' = FALSE
  /\ loading' = "null"
  /\ UNCHANGED << storeKind, selectedModel, csvRows, columns, storeEmbeddings, results,
                  lastRun, engineVars, dispatchVars >>

\* changeModel(modelName), up to the await of its loadModel(), which
\* returns at once while an earlier loadModel() is still waiting.
ChangeModel ==
  /\ \E modelName \in Models :
       /\ selectedModel' = modelName
       /\ IF isModelLoading
            THEN /\ isModelReady' = FALSE
                 /\ UNCHANGED << isModelLoading, requested, moduleVars >>
            ELSE StartLoad(modelName)
  /\ storeEmbeddings' = <<>>
  /\ results' = 0
  /\ UNCHANGED << storeKind, csvRows, columns, inFlight, lastRun, engineVars,
                  dispatchVars >>

\* loadFile(...) whose parse resolved with `rows`.
LoadFile ==
  /\ \E rows \in RowLists : csvRows' = rows
  /\ columns' = <<>>
  /\ storeEmbeddings' = <<>>
  /\ results' = 0
  /\ UNCHANGED << storeKind, selectedModel, isModelLoading, isModelReady, inFlight,
                  lastRun, requested, moduleVars, engineVars, dispatchVars >>

\* setComparisonColumns(columns) / setAnalysisColumns(columns)
SetColumns ==
  /\ \E cols \in ColumnLists : columns' = cols
  /\ UNCHANGED << storeKind, selectedModel, isModelLoading, isModelReady, csvRows,
                  storeEmbeddings, results, inFlight, lastRun, requested, moduleVars,
                  engineVars, dispatchVars >>

\* reset()
Reset ==
  /\ csvRows' = <<>>
  /\ columns' = <<>>
  /\ storeEmbeddings' = <<>>
  /\ results' = 0
  /\ UNCHANGED << storeKind, selectedModel, isModelLoading, isModelReady, inFlight,
                  lastRun, requested, moduleVars, engineVars, dispatchVars >>

\* runComparison() up to `await generateEmbeddings(texts, ...)`: it throws
\* unless canCompare, and otherwise maps the rows to texts and starts the
\* generation.
RunComparison ==
  /\ storeKind = "comparison"
  /\ IF ~canCompare
       THEN lastRun' = "throws" /\ UNCHANGED inFlight
       ELSE /\ Len(inFlight) < MaxInFlight
            /\ lastRun' = "started"
            /\ inFlight' = Append(inFlight,
                              [phase |-> "embeddings", texts |-> textsOf(csvRows, columns),
                               embeddings |-> <<>>, generated |-> TRUE])
  /\ UNCHANGED << storeKind, selectedModel, isModelLoading, isModelReady, csvRows,
                  columns, storeEmbeddings, results, requested, moduleVars, engineVars,
                  dispatchVars >>

\* runTopicModeling() up to its first await: it throws unless canAnalyze;
\* with no embeddings cached it maps the rows to texts and calls
\* generateEmbeddings(texts, selectedModel), which begins with
\* initializeModel(selectedModel); otherwise it goes on to performClustering
\* with the cached embeddings.
RunTopicModeling ==
  /\ storeKind = "topicModeling"
  /\ IF ~canAnalyze
       THEN lastRun' = "throws" /\ UNCHANGED << inFlight, moduleVars >>
       ELSE /\ Len(inFlight) < MaxInFlight
            /\ lastRun' = "started"
            /\ IF Len(storeEmbeddings) = 0
                 THEN LET r == initializeModel(selectedModel)
                      IN  /\ SetModule(r)
                          /\ inFlight' = Append(inFlight,
                               [phase |-> IF r.settled THEN "embeddings" ELSE "initializing",
                                texts |-> textsOf(csvRows, columns),
                                embeddings |-> <<>>, generated |-> TRUE])
                 ELSE /\ inFlight' = Append(inFlight,
                               [phase |-> "clustering", texts |-> <<>>,
                                embeddings |-> storeEmbeddings, generated |-> FALSE])
                      /\ UNCHANGED moduleVars
  /\ UNCHANGED << storeKind, selectedModel, isModelLoading, isModelReady, csvRows,
                  columns, storeEmbeddings, results, requested, engineVars,
                  dispatchVars >>

\* The sequence q without its i-th element.
Without(q, i) == SubSeq(q, 1, i - 1) \o SubSeq(q, i + 1, Len(q))

\* A run resumes behind the loop of generateEmbeddings, taken as one step.
\* Rejected (no pipeline, or the pipeline failed): the run throws.
\* Resolved: runComparison stores one vector per text and the pairs of
\* calculatePairwiseSimilarities; runTopicModeling stores one vector per
\* non-empty text and goes on to performClustering.
GenerateEmbeddingsSettles ==
  /\ \E i \in 1..Len(inFlight) :
       /\ inFlight[i].phase = "embeddings"
       /\ \/ /\ inFlight' = Without(inFlight, i)
             /\ UNCHANGED << storeEmbeddings, results >>
          \/ /\ storeKind = "comparison"
             /\ embeddingPipeline # "null"
             /\ storeEmbeddings' = generateEmbeddingsOfAll(inFlight[i].texts, embeddingPipeline)
             /\ results' = (Len(inFlight[i].texts) * (Len(inFlight[i].texts) - 1)) \div 2
             /\ inFlight' = Without(inFlight, i)
          \/ /\ storeKind = "topicModeling"
             /\ embeddingPipeline # "null"
             /\ LET vectors == generateEmbeddings(inFlight[i].texts, embeddingPipeline, 1)
                IN  /\ storeEmbeddings' = vectors
                    /\ inFlight' = [inFlight EXCEPT ![i].phase = "clustering",
                                                    ![i].embeddings = vectors]
             /\ UNCHANGED results
  /\ UNCHANGED << storeKind, selectedModel, isModelLoading, isModelReady, csvRows,
                  columns, lastRun, requested, moduleVars, engineVars, dispatchVars >>

\* runTopicModeling resumes behind `await performClustering(...)`.
\* Rejected: the run throws.  Resolved: one topic per cluster.
PerformClusteringSettles ==
  /\ \E i \in 1..Len(inFlight) :
       /\ inFlight[i].phase = "clustering"
       /\ inFlight' = Without(inFlight, i)
       /\ \/ UNCHANGED results
          \/ \E clusters \in 0..Len(inFlight[i].embeddings) : results' = clusters
  /\ UNCHANGED << storeKind, selectedModel, isModelLoading, isModelReady, csvRows,
                  columns, storeEmbeddings, lastRun, requested, moduleVars, engineVars,
                  dispatchVars >>

StoreNext ==
  \/ LoadModel
  \/ InitializeModelSettles
  \/ ChangeModel
  \/ LoadFile
  \/ SetColumns
  \/ Reset
  \/ RunComparison
  \/ RunTopicModeling
  \/ GenerateEmbeddingsSettles
  \/ PerformClusteringSettles

StoreSpec == StoreInit /\ [][StoreNext]_vars

\* ------------------------------------------------------------------ properties

\* The embeddings form a VectorSet of N >= 1 vectors of non-zero dimension.
ProperVectorSet ==
  /\ embeddings \in VectorSets
  /\ Len(embeddings) >= 1
  /\ Len(embeddings[1]) > 0

\* An all-pairs call (either backend) has returned a list.
PairsReturned ==
  /\ pc = "idle"
  /\ call.fn \in {"calculatePairwiseSimilarities", "calculateSimilaritiesOnGPU"}
  /\ ret.status = "ok"

\* C1: for N >= 1 vectors of equal non-zero dimension the list returned by
\* calculatePairwiseSimilarities and by calculateSimilaritiesOnGPU has exactly
\* N(N-1)/2 pairs, each with rowIndexA < rowIndexB, and every unordered pair
\* {i, j} of rows appears exactly once.
C1_AllPairsOnce ==
  (PairsReturned /\ ProperVectorSet) =>
    LET n == Len(embeddings)
        list == ret.value
    IN  /\ 2 * Len(list) = n * (n - 1)
        /\ \A p \in 1..Len(list) : list[p].rowIndexA < list[p].rowIndexB
        /\ \A i, j \in 0..(n - 1) :
             i < j =>
               Cardinality({ p \in 1..Len(list) :
                               {list[p].rowIndexA, list[p].rowIndexB} = {i, j} }) = 1

\* C1 witness: the GPU backend has returned the pairs of three proper vectors.
C1_Witness ==
  /\ PairsReturned /\ ProperVectorSet
  /\ call.fn = "calculateSimilaritiesOnGPU"
  /\ Len(embeddings) = 3
  /\ Len(ret.value) = 3

\* Row-major order of two pairs.
RowMajorBefore(p, q) ==
  \/ p.rowIndexA < q.rowIndexA
  \/ p.rowIndexA = q.rowIndexA /\ p.rowIndexB < q.rowIndexB

\* C2: the list returned by the all-pairs operation (CPU and GPU) is
\* non-increasing in score, pairs of equal score keep their row-major order,
\* and allPairs([[1,0],[0,1],[1,0]]) comes back as (0,2), (0,1), (1,2).
C2_SortedStable ==
  PairsReturned =>
    LET list == ret.value
    IN  /\ \A p, q \in 1..Len(list) :
             p < q =>
               /\ ~Greater(list[q].score, list[p].score)
               /\ list[p].score = list[q].score => RowMajorBefore(list[p], list[q])
        /\ embeddings = << <<1, 0>>, <<0, 1>>, <<1, 0>> >> =>
             [p \in 1..Len(list) |-> <<list[p].rowIndexA, list[p].rowIndexB>>]
               = << <<0, 2>>, <<0, 1>>, <<1, 2>> >>

\* C2 witness: the CPU backend has returned the scenario's list, whose last
\* two pairs tie at score 0.
C2_Witness ==
  /\ PairsReturned
  /\ call.fn = "calculatePairwiseSimilarities"
  /\ embeddings = << <<1, 0>>, <<0, 1>>, <<1, 0>> >>
  /\ ret.value[2].score = ret.value[3].score

\* The set of (rowIndexA, rowIndexB, score) tuples of a pair list.
Tuples(list) == { list[p] : p \in 1..Len(list) }

\* C3: for every VectorSet, N = 0, N = 1 and dimension 0 included, the list
\* calculateSimilaritiesOnGPU returns holds the same set of tuples as the
\* list calculatePairwiseSimilarities returns for the same input.
C3_BackendsAgree ==
  ( /\ PairsReturned
    /\ call.fn = "calculateSimilaritiesOnGPU"
    /\ embeddings \in VectorSets ) =>
      /\ ~calculatePairwiseSimilarities(embeddings).throws
      /\ Tuples(ret.value) = Tuples(calculatePairwiseSimilarities(embeddings).value)

\* A vector of norm exactly zero.
ZeroNorm(v) == \A i \in 1..Len(v) : v[i] = 0

\* C5: every cosine-similarity implementation returns exactly 0, and never
\* NaN, when one of its arguments has norm zero: cosineSimilarity of
\* similarity.ts, the shaders' cosineSimilarity, and the helper of
\* topicModeling.ts with its copies in the two GPU clustering functions.
C5_ZeroNormGivesZero ==
  embeddings \in VectorSets =>
    \A a, b \in 1..Len(embeddings) :
      (ZeroNorm(embeddings[a]) \/ ZeroNorm(embeddings[b])) =>
        /\ cosineSimilarity(embeddings[a], embeddings[b]).value = <<0, 1>>
        /\ Flatten(embeddings, Len(embeddings[1])).throws = FALSE
        /\ shaderCosineSimilarity(Flatten(embeddings, Len(embeddings[1])).value, a - 1,
                                  Flatten(embeddings, Len(embeddings[1])).value, b - 1,
                                  Len(embeddings[1])) = <<0, 1>>
        /\ helperCosineSimilarity(embeddings[a], embeddings[b]) = <<0, 1>>

\* C6: cosineSimilarity throws when its arguments differ in length, and
\* calculatePairwiseSimilarities on a list holding two vectors of unequal
\* length throws and hands no list (no truncated or partial list) back.
C6_MismatchThrows ==
  /\ ( /\ pc = "idle"
       /\ call.fn = "cosineSimilarity"
       /\ Len(embeddings[call.a + 1]) # Len(embeddings[call.b + 1]) ) =>
         ret = Thrown("cpu")
  /\ ( /\ pc = "idle"
       /\ call.fn = "calculatePairwiseSimilarities"
       /\ embeddings \notin VectorSets ) =>
         ret = Thrown("cpu")

\* C6 witness: calculatePairwiseSimilarities has thrown on three vectors of
\* which the first two have equal length (one pair was already pushed) and
\* the third does not.
C6_Witness ==
  /\ pc = "idle"
  /\ call.fn = "calculatePairwiseSimilarities"
  /\ Len(embeddings) = 3
  /\ Len(embeddings[1]) = Len(embeddings[2])
  /\ Len(embeddings[3]) # Len(embeddings[1])
  /\ ret.status = "error"

\* C8: the all-pairs entry point of the parallel backend returns the CPU
\* backend's result for the same input, rather than an error, when the
\* parallel backend is unavailable or fails during execution: it ends the
\* way calculatePairwiseSimilarities ends on that input.
C8_PairsFallBackToCpu ==
  ( /\ pc = "idle"
    /\ call.fn = "calculateSimilaritiesOnGPU"
    /\ ret.status = "error" ) =>
      calculatePairwiseSimilarities(embeddings).throws

\* C9: the adapter/device probe of initializeWebGPU is attempted at most
\* once in a process.
C9_ProbeAtMostOnce == probes <= 1

\* The embeddings form a VectorSet with no vector or with vectors of
\* dimension 0.
EmptyInput ==
  /\ embeddings \in VectorSets
  /\ Len(embeddings) = 0 \/ Len(embeddings[1]) = 0

\* C4: every engine entry point (calculatePairwiseSimilarities,
\* calculateSimilaritiesOnGPU, kMeansClustering, kMeansClusteringGPU,
\* hierarchicalClustering, hierarchicalClusteringGPU; the two CPU clustering
\* functions are entered through performClustering) returns an empty
\* sequence, and no error, when the input has no vector or vectors of
\* dimension 0.
C4_EmptyInputGivesEmpty ==
  ( /\ pc = "idle"
    /\ EmptyInput
    /\ \/ call.fn \in {"calculatePairwiseSimilarities", "performClustering"}
       \/ /\ call.fn \in {"calculateSimilaritiesOnGPU", "kMeansClusteringGPU",
                          "hierarchicalClusteringGPU"}
          /\ gpuDevice # "null" ) =>
      /\ ret.status = "ok"
      /\ ret.value = <<>>

\* C7: performClustering never ends with an error, and when it returns
\* without a device (WebGPU absent, or the probe failed) or after its GPU
\* function threw, what it returns is a result of the CPU implementation of
\* the same method on the same embeddings and k.
C7_FallbackReturnsCpuResult ==
  (pc = "idle" /\ call.fn = "performClustering") =>
    /\ ret.status = "ok"
    /\ (gpuDevice = "null" \/ gpuFailed) =>
         \E seeds \in SeedChoices(embeddings, call.k) :
           LET r == cpuClustering(call.method, embeddings, call.k, seeds)
           IN  r.end = "returns" /\ ret = Returned("cpu", r.value)

\* C7 witness: a performClustering call whose GPU function failed has
\* returned two clusters from the CPU implementation.
C7_Witness ==
  /\ pc = "idle"
  /\ call.fn = "performClustering"
  /\ gpuFailed
  /\ ret.status = "ok"
  /\ ret.via = "cpu"
  /\ Len(ret.value) = 2

\* C10: a step in which the GPU function of a performClustering call fails
\* and the call falls back to CPU leaves gpuDevice and isWebGPUAvailable
\* unchanged and the backend available; and the performClustering call that
\* starts after such a call goes to the GPU function again.
C10_FailureKeepsBackend ==
  [][ /\ (pc = "gpuBody" /\ call.fn = "performClustering" /\ gpuFailed') =>
           /\ gpuDevice' = gpuDevice
           /\ isWebGPUAvailable' = isWebGPUAvailable
           /\ isWebGPUAvailable' /\ gpuDevice' # "null"
      /\ (pc = "idle" /\ gpuFailed /\ pc' # "idle" /\ call'.fn = "performClustering") =>
           pc' = "gpuBody" ]_vars

\* C10 witness: the performClustering call after one that fell back to CPU
\* is running its GPU function.
C10_Witness ==
  /\ pc = "gpuBody"
  /\ call.fn = "performClustering"
  /\ gpuFailed

\* C11: performClustering called with k <= 0 ends with an error for its
\* caller, for both methods, and so ends: it neither returns a result nor
\* runs for ever.
C11_NonPositiveKRejected ==
  ( /\ call.fn = "performClustering"
    /\ call.k <= 0
    /\ pc \in {"idle", "hung"} ) =>
      /\ pc = "idle"
      /\ ret.status = "error"

\* A k-means call (performClustering with method k-means, or
\* kMeansClusteringGPU) on N >= 1 vectors of non-zero dimension.
KMeansOnProperVectors ==
  /\ call.fn \in {"performClustering", "kMeansClusteringGPU"}
  /\ call.method = "kmeans"
  /\ ProperVectorSet

\* C12: k-means called with k > N, for N >= 1 vectors of non-zero dimension,
\* terminates (it never stays in a loop for ever) and what it returns has
\* fewer than k clusters.
C12_OversizedKTerminates ==
  (KMeansOnProperVectors /\ call.k > Len(embeddings)) =>
    /\ pc # "hung"
    /\ (pc = "idle" /\ ret.status = "ok") => Len(ret.value) < call.k

\* A k-means call has returned a list of clusters.
KMeansReturned ==
  /\ pc = "idle"
  /\ call.fn \in {"performClustering", "kMeansClusteringGPU"}
  /\ call.method = "kmeans"
  /\ ret.status = "ok"

\* Every row 0..n-1 is listed exactly once in the documentIndices of the
\* clusters.
EachRowOnce(clusters, n) ==
  \A i \in 0..(n - 1) :
    Cardinality({ cx \in (1..Len(clusters)) \X (1..n) :
                    /\ cx[2] <= Len(clusters[cx[1]].documentIndices)
                    /\ clusters[cx[1]].documentIndices[cx[2]] = i }) = 1

\* C13 as stated: for N >= 1 and 1 <= k <= N the documentIndices of the
\* clusters k-means returns (both backends) are pairwise disjoint and their
\* union is {0..N-1}.
C13_PartitionAnyDimension ==
  ( /\ KMeansReturned
    /\ embeddings \in VectorSets
    /\ Len(embeddings) >= 1
    /\ 1 <= call.k /\ call.k <= Len(embeddings) ) =>
      EachRowOnce(ret.value, Len(embeddings))

\* C13, amended: for N >= 1 vectors of non-zero dimension and 1 <= k <= N
\* the documentIndices of the clusters k-means returns (both backends) are
\* pairwise disjoint and their union is {0..N-1}.
C13_KMeansPartition ==
  ( /\ KMeansReturned
    /\ ProperVectorSet
    /\ 1 <= call.k /\ call.k <= Len(embeddings) ) =>
      EachRowOnce(ret.value, Len(embeddings))

\* C13 witness: k-means on the GPU has returned two clusters, both with
\* members, for three vectors.
C13_Witness ==
  /\ KMeansReturned /\ ProperVectorSet
  /\ ret.via = "gpu"
  /\ Len(embeddings) = 3
  /\ call.k = 2
  /\ Len(ret.value[1].documentIndices) = 2
  /\ Len(ret.value[2].documentIndices) = 1

\* C14: every cluster k-means returns (both backends) has at least one
\* member: a cluster id no row is assigned to is left out of the output.
C14_NoEmptyCluster ==
  (KMeansReturned /\ ProperVectorSet) =>
    \A c \in 1..Len(ret.value) : Len(ret.value[c].documentIndices) >= 1

\* The centroid c, as the vector of numbers it stands for, is the unit
\* vector v of integers.
CentroidIs(c, v) ==
  /\ Len(c.sum) = Len(v)
  /\ CASE c.kind = "raw"  -> \A d \in 1..Len(v) : c.sum[d] = c.count * v[d]
       [] c.kind = "unit" -> /\ Dot(c.sum, v) > 0
                             /\ \A d \in 1..Len(v) : c.sum[d] = Dot(c.sum, v) * v[d]
       [] OTHER -> FALSE

\* The cluster has exactly the rows of members and the centroid v.
ClusterIs(cluster, members, v) ==
  /\ { cluster.documentIndices[x] : x \in 1..Len(cluster.documentIndices) } = members
  /\ Len(cluster.documentIndices) = Cardinality(members)
  /\ CentroidIs(cluster.centroid, v)

\* C15: k-means on [[1,0],[1,0],[0,1]] with k = 2 returns, whatever the two
\* seed rows and on both backends, exactly two clusters: one of rows {0, 1}
\* with centroid [1,0] and one of row {2} with centroid [0,1].
C15_ScenarioTwoClusters ==
  ( /\ KMeansReturned
    /\ embeddings = << <<1, 0>>, <<1, 0>>, <<0, 1>> >>
    /\ call.k = 2 ) =>
      /\ Len(ret.value) = 2
      /\ \E c \in 1..2 :
           /\ ClusterIs(ret.value[c], {0, 1}, <<1, 0>>)
           /\ ClusterIs(ret.value[3 - c], {2}, <<0, 1>>)

\* A hierarchical clustering call (performClustering with method
\* hierarchical, or hierarchicalClusteringGPU).
HierarchicalCall ==
  /\ call.fn \in {"performClustering", "hierarchicalClusteringGPU"}
  /\ call.method = "hierarchical"

\* C16: for N >= 1 vectors of non-zero dimension and k >= 1, hierarchical
\* clustering (both backends) terminates, and what it returns has exactly k
\* clusters when k < N and exactly N clusters when k >= N.
C16_HierarchicalClusterCount ==
  (HierarchicalCall /\ ProperVectorSet /\ call.k >= 1) =>
    /\ pc # "hung"
    /\ (pc = "idle" /\ ret.status = "ok") =>
         Len(ret.value) = IF call.k < Len(embeddings) THEN call.k ELSE Len(embeddings)

\* C16 witness: the CPU function has merged three vectors into two clusters.
C16_Witness ==
  /\ HierarchicalCall /\ ProperVectorSet
  /\ pc = "idle"
  /\ ret.status = "ok"
  /\ ret.via = "cpu"
  /\ Len(embeddings) = 3
  /\ call.k = 2
  /\ Len(ret.value) = 2

\* The member lists of a list of clusters, in order.
MemberLists(clusters) == [c \in 1..Len(clusters) |-> clusters[c].documentIndices]

\* C17: for the same vectors and k, hierarchicalClusteringGPU returns the
\* sequence of clusters the CPU hierarchicalClustering returns: the same
\* member sets in the same order (both merge the same pair at every step).
\* Stated for vectors of non-zero norm, on which every cosine is a number.
C17_HierarchicalBackendsAgree ==
  ( /\ HierarchicalCall /\ ProperVectorSet /\ call.k >= 1
    /\ \A i \in 1..Len(embeddings) : ~ZeroNorm(embeddings[i])
    /\ pc = "idle"
    /\ ret.status = "ok"
    /\ ret.via = "gpu" ) =>
      /\ hierarchicalClustering(embeddings, call.k).end = "returns"
      /\ MemberLists(ret.value) = MemberLists(hierarchicalClustering(embeddings, call.k).value)


\* C18: by the time a call of calculateSimilaritiesOnGPU, kMeansClusteringGPU
\* or hierarchicalClusteringGPU has returned or thrown (directly, or inside
\* performClustering), every GPU buffer the call created has been destroyed.
C18_BuffersDestroyed ==
  (pc = "idle" /\ ret.status # "none") => undestroyed = 0


\* C19: in one dispatch, whatever the order and interleaving of the
\* invocations, invocation p stores only to the slots of linear index p,
\* an invocation at or past the work count stores nothing, no slot is
\* stored to by two invocations, and once the pass is over every slot has
\* been stored to and the staging buffer holds, at every slot, the value
\* the slot's own invocation computes.
C19_DisjointSlots ==
  kernel.shader # "none" =>
    LET w == slotsPerItem(kernel.shader)
    IN  /\ \A st \in written : st[1] < workCount(kernel) /\ st[2] \div w = st[1]
        /\ \A x, y \in written : x[2] = y[2] => x[1] = y[1]
        /\ staging.mapped =>
             /\ \A slot \in 0..(bufferSlots(kernel) - 1) : \E st \in written : st[2] = slot
             /\ staging.data =
                  [x \in 1..bufferSlots(kernel) |->
                     shaderMain(kernel, (x - 1) \div w)[((x - 1) % w) + 1][2]]

\* A similarity dispatch over three vectors has been read back: three
\* invocations stored, the fourth of the workgroup returned at the test.
C19_Witness ==
  /\ staging.mapped
  /\ kernel.shader = "similarity"
  /\ Len(kernel.emb) = 3
  /\ returned # {}
  /\ Cardinality(written) = 9


\* C20: a call of runComparison or runTopicModeling made while no rows are
\* loaded, or no comparison / analysis column is selected, or isModelReady
\* is false, throws, starts no embedding generation, and leaves the
\* embeddings and the results as they were.
C20_RunGated ==
  [][ ((RunComparison \/ RunTopicModeling)
         /\ ~(Len(csvRows) > 0 /\ Len(columns) > 0 /\ isModelReady)) =>
        /\ lastRun' = "throws"
        /\ inFlight' = inFlight
        /\ storeEmbeddings' = storeEmbeddings
        /\ results' = results ]_vars

\* A run was called with rows and columns in place while the model was
\* still loading, and threw.
C20_Witness ==
  /\ lastRun = "throws"
  /\ Len(csvRows) > 0
  /\ Len(columns) > 0
  /\ ~isModelReady
  /\ isModelLoading
  /\ inFlight = <<>>


\* The most vectors the index recovery is compared on.
MaxVectors == 6

\* n rows of dimension one, for the order of a loop over their pairs.
UnitRows(n) == [i \in 1..n |-> <<1>>]

\* The pairs (i, j) in the order the CPU double loop over n rows visits them.
LoopPairs(n) ==
  LET pushed == PairLoop(UnitRows(n), 0, 1, <<>>).value
  IN  [p \in 1..Len(pushed) |-> <<pushed[p].rowIndexA, pushed[p].rowIndexB>>]

\* C21: for every N the shaders' index recovery maps each linear index p in
\* [0, N(N-1)/2) to a pair (i, j) with 0 <= i < j < N, maps distinct indices
\* to distinct pairs, reaches every such pair, and gives for p the p-th pair
\* of the CPU row-major double loop; accordingly the similarity shader
\* stores that pair at results[3p], results[3p + 1], and the hierarchical
\* shader stores at similarities[p] the cosine of the centroids of that pair.
C21_IndexRecovery ==
  /\ \A n \in 0..MaxVectors :
       LET pairs == Array(LoopPairs(n))
           total == (n * (n - 1)) \div 2
           recovered == Array([x \in 1..total |-> PairOfIndex(0, x - 1, n - 1, n)])
       IN  /\ Len(pairs) = total
           /\ \A p \in 0..(total - 1) :
                LET ij == recovered[p + 1]
                IN  /\ 0 <= ij[1] /\ ij[1] < ij[2] /\ ij[2] < n
                    /\ ij = pairs[p + 1]
           /\ \A p, q \in 0..(total - 1) : p # q => recovered[p + 1] # recovered[q + 1]
           /\ \A i, j \in 0..(n - 1) :
                i < j => \E p \in 0..(total - 1) : recovered[p + 1] = <<i, j>>
  /\ (staging.mapped /\ kernel.shader = "similarity") =>
       \A p \in 0..(workCount(kernel) - 1) :
         /\ staging.data[3 * p + 1] = Div(LoopPairs(Len(kernel.emb))[p + 1][1], 1)
         /\ staging.data[3 * p + 2] = Div(LoopPairs(Len(kernel.emb))[p + 1][2], 1)
  /\ (staging.mapped /\ kernel.shader = "hierarchical") =>
       \A p \in 0..(workCount(kernel) - 1) :
         LET ij == LoopPairs(Len(kernel.emb))[p + 1]
         IN  staging.data[p + 1] =
               shaderCosineToCentroid(kernel.emb[ij[1] + 1], CopyOf(kernel.emb[ij[2] + 1]))

\* A hierarchical dispatch over three clusters has been read back: its
\* three invocations recovered the pairs (0, 1), (0, 2), (1, 2).
C21_Witness ==
  /\ staging.mapped
  /\ kernel.shader = "hierarchical"
  /\ Len(kernel.emb) = 3
  /\ Len(staging.data) = 3

\* The passes of the k-means loop that returned: the last Len(history)
\* values reported belong to it (a failed GPU attempt reported before them).
OwnProgress ==
  SubSeq(reported, Len(reported) - Len(history) + 1, Len(reported))

\* C22: the k-means loop (both backends) runs at most 100 assignment
\* iterations and stops after the first iteration whose assignment array
\* equals the array of the iteration before it; the progress callback is
\* called once per iteration, with iteration / 100.
C22_StopsAtRepeatedAssignment ==
  (KMeansReturned /\ ProperVectorSet) =>
    LET passes == Len(history)
    IN  /\ passes <= maxIterations
        /\ Len(reported) >= passes
        /\ \A i \in 1..passes : OwnProgress[i] = Div(i, maxIterations)
        /\ \A i \in 2..passes :
             (history[i].after = history[i - 1].after) => i = passes
        /\ passes < maxIterations =>
             /\ passes >= 2
             /\ history[passes].after = history[passes - 1].after

\* A clustering call of either method has returned a cluster list.
ClusteringReturned ==
  /\ pc = "idle"
  /\ call.fn \in {"performClustering", "kMeansClusteringGPU", "hierarchicalClusteringGPU"}
  /\ ret.status = "ok"

\* The sum of the rows of the call listed in documentIndices.
MemberSum(documentIndices) ==
  SumOfRows(embeddings, Len(embeddings[1]), documentIndices)

\* The vector w is a positive multiple of the non-zero vector m.
SameDirection(w, m) ==
  /\ Len(w) = Len(m)
  /\ Dot(w, m) > 0
  /\ \A d \in 1..Len(m) : w[d] * Dot(m, m) = Dot(w, m) * m[d]

\* The centroid c is the vector m / |m|, for a non-zero m.
IsUnitVectorOf(c, m) ==
  CASE c.kind = "unit" -> SameDirection(c.sum, m)
    [] c.kind = "raw"  -> /\ SameDirection(c.sum, m)
                          /\ Dot(c.sum, c.sum) = c.count * c.count
    [] OTHER -> FALSE

\* C23: on return from k-means or hierarchical clustering (both backends)
\* the centroid of every cluster with members is the mean of the rows in its
\* documentIndices divided by its norm (stated where that mean is not the
\* zero vector).
C23_CentroidIsUnitMean ==
  (ClusteringReturned /\ ProperVectorSet) =>
    \A c \in 1..Len(ret.value) :
      LET members == ret.value[c].documentIndices
      IN  ( /\ Len(members) >= 1
            /\ \E d \in 1..Len(embeddings[1]) : MemberSum(members)[d] # 0 ) =>
              IsUnitVectorOf(ret.value[c].centroid, MemberSum(members))

\* C24: when the mean of a returned cluster's rows is the zero vector, the
\* centroid k-means and hierarchical clustering computed for it is that
\* mean, the zero vector, not a quotient by the norm 0, on the CPU and on
\* the GPU code paths alike.
C24_ZeroMeanLeftUnnormalized ==
  (ClusteringReturned /\ ProperVectorSet) =>
    \A c \in 1..Len(ret.value) :
      LET members == ret.value[c].documentIndices
      IN  ( /\ Len(members) >= 1
            /\ \A d \in 1..Len(embeddings[1]) : MemberSum(members)[d] = 0 ) =>
              /\ ret.value[c].centroid.kind = "raw"
              /\ \A d \in 1..Len(embeddings[1]) : ret.value[c].centroid.sum[d] = 0

\* A hierarchical clustering call has returned a cluster list.
HierarchicalReturned ==
  HierarchicalCall /\ pc = "idle" /\ ret.status = "ok"

\* The member list of an active cluster of a pass: the CPU loop keeps the
\* lists themselves, the GPU loop keeps them with a centroid.
MembersOf(cluster) ==
  IF ret.via = "gpu" THEN cluster.documentIndices ELSE cluster

\* The similarity the running backend gives the active clusters a and b
\* (0-based) of `clusters`: average linkage on the CPU, the shader's cosine
\* of the two centroids on the GPU.
PairSimilarity(clusters, a, b) ==
  IF ret.via = "gpu"
    THEN shaderCosineToCentroid(clusters[a + 1].centroid.sum, clusters[b + 1].centroid)
    ELSE averageLinkage(embeddings, clusters[a + 1], clusters[b + 1])

\* The pairs (a, b), a < b, of n active clusters.
ActivePairs(n) == { ab \in (0..(n - 1)) \X (0..(n - 1)) : ab[1] < ab[2] }

\* The pair ab of active clusters is visited before the pair cd.
EarlierPair(ab, cd) == ab[1] < cd[1] \/ (ab[1] = cd[1] /\ ab[2] < cd[2])

\* C25: every iteration of the hierarchical merge loop selects the pair
\* (i, j), i < j, of maximum similarity, the first one in row-major order
\* among ties, puts the union of the members of i and j in place of cluster
\* i, removes cluster j and leaves the other clusters as they were and in the
\* same order: one cluster fewer per iteration.
C25_MergeStep ==
  (HierarchicalReturned /\ ProperVectorSet) =>
    \A p \in 1..Len(history) :
      LET before == history[p].before
          after == history[p].after
          i == history[p].merge[1]
          j == history[p].merge[2]
          n == Len(before)
          sim == PairSimilarity(before, i, j)
      IN  /\ <<i, j>> \in ActivePairs(n)
          /\ ~IsNaN(sim)
          /\ \A ab \in ActivePairs(n) :
               LET other == PairSimilarity(before, ab[1], ab[2])
               IN  /\ ~Greater(other, sim)
                   /\ (EarlierPair(ab, <<i, j>>) /\ ~IsNaN(other)) => Greater(sim, other)
          /\ Len(after) = n - 1
          /\ MembersOf(after[i + 1]) = MembersOf(before[i + 1]) \o MembersOf(before[j + 1])
          /\ \A x \in 1..(n - 1) :
               x # i + 1 => after[x] = IF x < j + 1 THEN before[x] ELSE before[x + 1]
          /\ p < Len(history) => history[p + 1].before = after

\* The rows listed in the member lists of the active clusters, one entry
\* per listing.
Listings(clusters) ==
  { cx \in (1..Len(clusters)) \X (1..Len(embeddings)) :
      cx[2] <= Len(MembersOf(clusters[cx[1]])) }

\* The member lists of the active clusters are non-empty, pairwise disjoint
\* and list every row 0..N-1.
IsPartition(clusters) ==
  /\ \A c \in 1..Len(clusters) : Len(MembersOf(clusters[c])) >= 1
  /\ \A i \in 0..(Len(embeddings) - 1) :
       Cardinality({ cx \in Listings(clusters) :
                       MembersOf(clusters[cx[1]])[cx[2]] = i }) = 1
  /\ \A cx \in Listings(clusters) :
       MembersOf(clusters[cx[1]])[cx[2]] \in 0..(Len(embeddings) - 1)

AtMost(a, b) == ~IsNaN(a) /\ ~IsNaN(b) /\ a[1] * b[2] <= b[1] * a[2]

\* C27: within one performClustering call the values passed to onProgress
\* never decrease and lie in [0, 1], also when the GPU attempt reported
\* progress before it failed and the CPU implementation started over.
C27_ProgressMonotone ==
  (call.fn = "performClustering" /\ ProperVectorSet /\ call.k >= 1) =>
    /\ \A i \in 1..Len(reported) :
         AtMost(<<0, 1>>, reported[i]) /\ AtMost(reported[i], <<1, 1>>)
    /\ \A i \in 1..(Len(reported) - 1) : AtMost(reported[i], reported[i + 1])

C29_OneVectorPerText ==
  \A r \in 1..Len(inFlight) :
    (inFlight[r].phase = "clustering" /\ inFlight[r].generated) =>
      /\ Len(inFlight[r].embeddings) = Len(inFlight[r].texts)
      /\ \A i \in 1..Len(inFlight[r].texts) :
           inFlight[r].embeddings[i].text = inFlight[r].texts[i]

\* The vectors generateEmbeddings returns now for the rows, the analysis
\* columns and the model selected.
EmbeddingsOfCurrentRows ==
  generateEmbeddings(textsOf(csvRows, columns), selectedModel, 1)

\* C30: whatever loadFile, setAnalysisColumns, changeModel and
\* runTopicModeling calls came before, the embeddings runTopicModeling
\* hands to performClustering from its cache are those of the current rows
\* under the analysis columns and the model selected now.
C30_CacheMatchesSelection ==
  [][ ( /\ RunTopicModeling
        /\ Len(inFlight') > Len(inFlight)
        /\ inFlight'[Len(inFlight')].phase = "clustering" ) =>
          inFlight'[Len(inFlight')].embeddings = EmbeddingsOfCurrentRows ]_vars

=========================================================================
